---- MODULE Spec2Model ----
(***************************************************************************)
(* FootyBot: the token-bucket rate limiter of the API client, the          *)
(* decorators' RateLimiter, the retry / async_retry wrappers, the cached   *)
(* decorator, the composition of these in APIFootballClient, the retried   *)
(* methods of SupabaseClient with the /start handler that calls them, and  *)
(* threads calling concurrently into the limiters and the cache.           *)
(*                                                                         *)
(* Time is counted in ticks of a clock `now` that never runs backwards;    *)
(* one minute is TicksPerMinute ticks.  Token counts are floats in the     *)
(* source; here they are exact rationals kept as integers: minute_tokens   *)
(* is the source's minute_tokens times TicksPerMinute, and a bucket of     *)
(* decorators.RateLimiter holds the source's tokens times the period.      *)
(* The calendar date (datetime.now().date()) is the counter `today`.       *)
(*                                                                         *)
(* The objects share no state, so a behaviour exercises the objects that   *)
(* its initial state constructs (the variable `objects`).                  *)
(***************************************************************************)
EXTENDS Integers, Sequences, FiniteSets, TLC

VARIABLES
    objects,             \* the objects this run has constructed
    now,                 \* time.time() / datetime.now(), in ticks
    today,               \* datetime.now().date()
    \* ---- TokenBucketRateLimiter (src/api/football_api.py)
    per_minute, per_day,
    minute_tokens,       \* scaled by TicksPerMinute
    minute_last_update,
    day_tokens,          \* whole tokens
    day_last_update,
    minute_requests, day_requests,
    day_start,
    tb_result,           \* outcome of the latest acquire(): granted / day / minute
    tb_seen,             \* what that acquire() saw after _refill_tokens, and when
    tb_wait,             \* the wait time its error carries, scaled by per_minute;
                         \* << >>: the call raised no error, or one without a wait time
    tb_prev,             \* result, time and wait time of the acquire() before that
    shadow,              \* a second limiter, built with the same arguments at the
                         \* same time, that is asked for tokens only
    \* ---- decorators.RateLimiter (src/utils/decorators.py)
    rl_max_calls, rl_period,   \* the fixed arguments of allow_request
    buckets,             \* key -> [tokens (scaled by rl_period), last_update]
    rl_result,           \* the latest allow_request: its key, its answer, and whether
                         \* it was the first call for the key
    rl_wait,             \* the latest wait_time: its key and what it returned, times
                         \* max_calls
    \* ---- rate_limit (src/utils/decorators.py)
    w_pc,                \* idle / check / wait / invoked: the wrapper's position
    w_key,               \* the rate limit key of the call
    w_sleeps,            \* how often the call has slept
    w_calls,             \* calls of the wrapped function so far
    \* ---- retry / async_retry (src/utils/decorators.py)
    r_flavor,            \* "retry" or "async_retry": the two wrappers are the same loop
    r_max_attempts, r_delay, r_backoff,
    r_pc,                \* ready / running / returned / raised
    r_attempt,           \* the loop variable `attempt`
    r_current_delay,
    r_outcomes,          \* outcome of each invocation of the wrapped function, in order
    r_sleeps,            \* duration of each sleep, in order
    r_done,              \* the invocation whose value was returned or whose failure was
                         \* raised; 0: the wrapper returned None
    \* ---- cached (src/utils/decorators.py)
    c_ttl, c_maxsize,    \* the decorator's arguments; << >> models ttl=None
    cache,               \* cache_key -> stored value
    cache_times,         \* the dict cache_times, in dict order: <<[key, time], ...>>
    c_invocations,       \* how often the wrapped function was invoked; its n-th
                         \* invocation returns the value n
    c_stored_at,         \* cache_key -> time of the latest store for it, -1: never
    c_evicted,           \* keys evicted for capacity since their latest store
    c_cleared,           \* keys that were stored when the cache was last cleared and
                         \* have not been stored since
    c_last,              \* the latest call of the wrapper
    \* ---- APIFootballClient (src/api/football_api.py)
    a_pc,                \* idle / running / returned / raised: the accessor call
    a_key,               \* endpoint and parameters of the accessor call
    a_attempt,           \* the retry wrapper's `attempt` around _make_request
    a_current_delay,
    a_sleeps,            \* backoff sleeps of the current accessor call
    a_gets,              \* session.get calls of the current accessor call
    a_http,              \* how the latest session.get ended
    a_error,             \* the exception the accessor call raised
    a_log,               \* per key: accessor calls made, tokens granted, session.get calls
    a_total_gets,        \* session.get calls since the client was built
    \* ---- SupabaseClient (src/database/supabase_client.py)
    users,               \* rows of the backend's users table for the Telegram user
    d_pc,                \* idle / running / returned / raised: the method call
    d_op,                \* the method called
    d_attempt,           \* the retry wrapper's `attempt` around the method
    d_current_delay,
    d_sleeps,            \* duration of each backoff sleep of the method call
    d_sent,              \* backend calls the method call has sent
    d_failed,            \* the latest backend call of the method call failed
    d_value,             \* what the method call returned
    d_calls,             \* method calls made so far
    \* ---- /start (src/bot/handlers/commands.py)
    h_pc,                \* idle / lookup / update / create / referral / prefs / done
    h_referral,          \* the command carried a referral code
    h_existed,           \* the user had a row when the command arrived
    h_reply,             \* the message sent to the user
    \* ---- threads calling into one limiter or one cached function
    lock,                \* TokenBucketRateLimiter.lock: its holder, 0 when free
    t_pc,                \* thread -> position in its call
    t_call,              \* thread -> what it calls, and with which key
    t_local,             \* thread -> the locals of its call
    t_result,            \* thread -> how its call ended
    \* ---- requires_points (src/bot/middleware/points_checker.py)
    p_pc,                \* idle / deduct / done: the wrapper's position
    p_update,            \* the update handled: its kind and its callback data
    p_rpcs,              \* deduct_point calls made for it
    p_result,            \* what check_and_deduct returned for it, << >> before
    p_alert,             \* the refusal shown to the user
    p_ran,               \* the wrapped handler was run for it
    p_updates            \* updates handled so far

tbVars == <<per_minute, per_day, minute_tokens, minute_last_update, day_tokens,
            day_last_update, minute_requests, day_requests, day_start,
            tb_result, tb_seen, tb_wait, tb_prev, shadow>>

rlVars == <<rl_max_calls, rl_period, buckets, rl_result, rl_wait>>

limitVars == <<w_pc, w_key, w_sleeps, w_calls>>

retryVars == <<r_flavor, r_max_attempts, r_delay, r_backoff, r_pc, r_attempt,
               r_current_delay, r_outcomes, r_sleeps, r_done>>

cacheVars == <<c_ttl, c_maxsize, cache, cache_times, c_invocations, c_stored_at,
               c_evicted, c_cleared, c_last>>

clientVars == <<a_pc, a_key, a_attempt, a_current_delay, a_sleeps, a_gets, a_http,
                a_error, a_log, a_total_gets>>

dbVars == <<users, d_pc, d_op, d_attempt, d_current_delay, d_sleeps, d_sent, d_failed,
            d_value, d_calls, h_pc, h_referral, h_existed, h_reply>>

threadVars == <<lock, t_pc, t_call, t_local, t_result>>

pointsVars == <<p_pc, p_update, p_rpcs, p_result, p_alert, p_ran, p_updates>>

vars == <<objects, now, today, tbVars, rlVars, limitVars, retryVars, cacheVars,
          clientVars, dbVars, threadVars, pointsVars>>

\* ------------------------------------------------------------------ bounds
MaxTime == 4
MaxStep == 2
MaxDay == 1
TicksPerMinute == 2
TicksPerDay == 4
MaxPerMinute == 2
MaxPerDay == 3
MaxCalls == 2
MaxPeriod == 2
MaxGap == 1
MaxAttempts == 3
MaxDelay == 2
MaxBackoff == 2
MaxSize == 2
MaxTtl == 2
MaxInvocations == 3
MaxDuration == 1
MaxRequests == 2
MaxDbCalls == 3
NumThreads == 2
MaxThreadCalls == 3
MaxLimitedCalls == 3
MaxUpdates == 3

CacheKeys == {"a", "b", "c"}

RLKeys == {"k1", "k2"}

Min(a, b) == IF a <= b THEN a ELSE b

OneToken == TicksPerMinute

\* ------------------------------------------------------------------ clock
Tick ==
    \E d \in 1..MaxStep :
        /\ now + d <= MaxTime
        /\ now' = now + d
        /\ UNCHANGED <<objects, limitVars, pointsVars, dbVars, threadVars, today, tbVars, rlVars, retryVars, cacheVars, clientVars>>

NewDay ==
    /\ today < MaxDay
    /\ today' = today + 1
    /\ UNCHANGED <<objects, limitVars, pointsVars, dbVars, threadVars, now, tbVars, rlVars, retryVars, cacheVars, clientVars>>

\* ------------------------------------------- TokenBucketRateLimiter
NoSeen == [minute |-> 0, day |-> 0, minute_requests |-> 0, day_requests |-> 0,
           at |-> 0]

\* an error message with no wait time in it
NoWait == << >>

NoPrev == [result |-> "none", at |-> 0, wait |-> NoWait]

NoShadow == [minute_tokens |-> 0, minute_last_update |-> 0, day_tokens |-> 0,
             day_start |-> 0, minute_requests |-> 0, day_requests |-> 0,
             result |-> "none"]

\* the second limiter after __init__(per_minute, per_day)
NewShadow == [minute_tokens |-> per_minute * OneToken, minute_last_update |-> now,
              day_tokens |-> per_day, day_start |-> today,
              minute_requests |-> 0, day_requests |-> 0, result |-> "none"]

TBIdle ==
    /\ per_minute = 0 /\ per_day = 0
    /\ minute_tokens = 0 /\ minute_last_update = 0
    /\ day_tokens = 0 /\ day_last_update = 0
    /\ minute_requests = 0 /\ day_requests = 0
    /\ day_start = 0
    /\ tb_result = "none"
    /\ tb_seen = NoSeen
    /\ tb_wait = NoWait
    /\ tb_prev = NoPrev
    /\ shadow = NoShadow

\* __init__(per_minute, per_day)
TBInit ==
    /\ per_minute \in 1..MaxPerMinute
    /\ per_day \in 1..MaxPerDay
    /\ minute_tokens = per_minute * OneToken
    /\ minute_last_update = now
    /\ day_tokens = per_day
    /\ day_last_update = now
    /\ minute_requests = 0 /\ day_requests = 0
    /\ day_start = today
    /\ tb_result = "none"
    /\ tb_seen = NoSeen
    /\ tb_wait = NoWait
    /\ tb_prev = NoPrev
    /\ shadow = NewShadow

\* mutant: a refill credits whole tokens only and drops the rest
RefillMinute_WholeTokens(tokens, time_passed, pm) ==
    Min(pm * OneToken, tokens + ((time_passed * pm) \div OneToken) * OneToken)


\* mutant: the per-minute bucket is never refilled
RefillMinute_Never(tokens, time_passed, pm) == tokens

\* _refill_tokens: the per-minute bucket after the refill
RefillMinute(tokens, time_passed, pm) ==
    Min(pm * OneToken, tokens + time_passed * pm)

\* _refill_tokens: the per-day bucket is reset on a new calendar date only
NewDate == today > day_start

\* mutant: the per-day bucket is full again as soon as any time has passed
RefillDay_Elapsed(tokens, pd) ==
    IF NewDate \/ now > day_last_update THEN pd ELSE tokens

RefillDay(tokens, pd) == IF NewDate THEN pd ELSE tokens

\* mutant: the request counter survives the reset of the per-day bucket
RefillDayRequests_Keep(n) == n


RefillDayRequests(n) == IF NewDate THEN 0 ELSE n

\* the state _refill_tokens leaves behind
Refilled ==
    [minute |-> RefillMinute(minute_tokens, now - minute_last_update, per_minute),
     day |-> RefillDay(day_tokens, per_day),
     minute_requests |-> minute_requests,
     day_requests |-> RefillDayRequests(day_requests),
     at |-> now]

RefillStamps ==
    /\ minute_last_update' = now
    /\ day_start' = IF NewDate THEN today ELSE day_start
    /\ day_last_update' = IF NewDate THEN now ELSE day_last_update

\* mutant: the per-minute check refuses a bucket holding exactly one token
Verdict_OffByOne(r) ==
    IF r.day < 1 THEN "day"
    ELSE IF r.minute <= OneToken THEN "minute"
    ELSE "granted"

\* acquire(): which check refuses, if any (the per-day check comes first)
Verdict(r) ==
    IF r.day < 1 THEN "day"
    ELSE IF r.minute < OneToken THEN "minute"
    ELSE "granted"

\* mutant: a grant takes its token from the per-minute window only
Consume_MinuteOnly(r, verdict) ==
    IF verdict = "granted"
    THEN [minute |-> r.minute - OneToken,
          day |-> r.day,
          minute_requests |-> r.minute_requests + 1,
          day_requests |-> r.day_requests + 1,
          at |-> r.at]
    ELSE r

\* acquire(): the tokens and counters left by the call
Consume(r, verdict) ==
    IF verdict = "granted"
    THEN [minute |-> r.minute - OneToken,
          day |-> r.day - 1,
          minute_requests |-> r.minute_requests + 1,
          day_requests |-> r.day_requests + 1,
          at |-> r.at]
    ELSE r

\* mutant: the wait for a whole token, whatever the bucket holds
WaitTime_Whole(r) == OneToken

\* acquire(): wait_time = (1 - minute_tokens) * 60.0 / per_minute, here times
\* per_minute and in ticks
WaitTime(r) == OneToken - r.minute

\* acquire(): the wait time in the message of the error raised; the per-day
\* error says "Try again tomorrow." and names none
ErrorWait(r, verdict) == IF verdict = "minute" THEN <<WaitTime(r)>> ELSE NoWait

\* get_usage_stats(): the dictionary returned; int() of a token count that
\* is not negative is its whole part
Stats(r) ==
    [per_minute |-> [limit |-> per_minute, used |-> r.minute_requests,
                     available |-> r.minute \div OneToken],
     per_day |-> [limit |-> per_day, used |-> r.day_requests,
                  available |-> r.day]]

\* the body of acquire(), under the lock
Acquire ==
    LET r == Refilled
        v == Verdict(r)
        s == Consume(r, v)
    IN /\ RefillStamps
       /\ minute_tokens' = s.minute
       /\ day_tokens' = s.day
       /\ minute_requests' = s.minute_requests
       /\ day_requests' = s.day_requests
       /\ tb_result' = v
       /\ tb_seen' = r
       /\ tb_wait' = ErrorWait(r, v)
       /\ tb_prev' = [result |-> tb_result, at |-> tb_seen.at, wait |-> tb_wait]

acquire ==
    /\ "TokenBucketRateLimiter" \in objects
    /\ Acquire
    /\ UNCHANGED <<objects, shadow, limitVars, pointsVars, dbVars, threadVars, now, today, per_minute, per_day, rlVars, retryVars, cacheVars,
                   clientVars>>

\* _refill_tokens of the second limiter
ShadowRefilled ==
    [minute |-> RefillMinute(shadow.minute_tokens, now - shadow.minute_last_update,
                             per_minute),
     day |-> IF today > shadow.day_start THEN per_day ELSE shadow.day_tokens,
     minute_requests |-> shadow.minute_requests,
     day_requests |-> IF today > shadow.day_start THEN 0 ELSE shadow.day_requests,
     at |-> now]

\* acquire() of the second limiter
ShadowAcquire ==
    LET r == ShadowRefilled
        v == Verdict(r)
        s == Consume(r, v)
    IN shadow' = [minute_tokens |-> s.minute,
                  minute_last_update |-> now,
                  day_tokens |-> s.day,
                  day_start |-> IF today > shadow.day_start THEN today
                                                            ELSE shadow.day_start,
                  minute_requests |-> s.minute_requests,
                  day_requests |-> s.day_requests,
                  result |-> v]

\* acquire() on both limiters at the same moment
both_acquire ==
    /\ "TokenBucketRateLimiter" \in objects /\ "shadow" \in objects
    /\ Acquire
    /\ ShadowAcquire
    /\ UNCHANGED <<objects, limitVars, pointsVars, dbVars, threadVars, now, today,
                   per_minute, per_day, rlVars, retryVars, cacheVars, clientVars>>


get_usage_stats ==
    /\ "TokenBucketRateLimiter" \in objects
    /\ LET r == Refilled
       IN /\ RefillStamps
          /\ minute_tokens' = r.minute
          /\ day_tokens' = r.day
          /\ day_requests' = r.day_requests
    /\ UNCHANGED <<objects, limitVars, pointsVars, dbVars, threadVars, now, today,
                   per_minute, per_day, minute_requests, tb_result, tb_seen, tb_wait,
                   tb_prev, shadow, rlVars, retryVars, cacheVars, clientVars>>

\* a caller at the steady rate of the per-minute limit: its calls are exactly
\* 60 / per_minute seconds apart
Spacing == TicksPerMinute \div per_minute

Paced == per_minute * Spacing = TicksPerMinute

\* the caller sleeps from one call to the time of the next
pace ==
    /\ "TokenBucketRateLimiter" \in objects
    /\ tb_result # "none"
    /\ now = tb_seen.at
    /\ now + Spacing <= MaxTime
    /\ now' = now + Spacing
    /\ UNCHANGED <<objects, limitVars, pointsVars, dbVars, threadVars, today, tbVars, rlVars, retryVars,
                   cacheVars, clientVars>>

\* the caller's next call of acquire(), when it is due
paced_acquire ==
    /\ "TokenBucketRateLimiter" \in objects
    /\ tb_result = "none" \/ now = tb_seen.at + Spacing
    /\ Acquire
    /\ UNCHANGED <<objects, shadow, limitVars, pointsVars, dbVars, threadVars, now, today, per_minute, per_day,
                   rlVars, retryVars, cacheVars, clientVars>>

\* ---------------------------------------------- decorators.RateLimiter
NoRequest == [key |-> "none", allowed |-> FALSE, first |-> FALSE]

NoWaitTime == [key |-> "none", wait |-> 0]

RLIdle ==
    /\ rl_max_calls = 0 /\ rl_period = 0
    /\ buckets = << >>
    /\ rl_result = NoRequest
    /\ rl_wait = NoWaitTime

\* RateLimiter.__init__: no bucket yet
RLInit ==
    /\ rl_max_calls \in 1..MaxCalls
    /\ rl_period \in 1..MaxPeriod
    /\ buckets = << >>
    /\ rl_result = NoRequest
    /\ rl_wait = NoWaitTime

\* the defaultdict factory: it reads datetime.now() itself, `gap` ticks after
\* allow_request read its own `now`
NewBucket(created) == [tokens |-> 0, last_update |-> created]

BucketAt(key, created) ==
    IF key \in DOMAIN buckets THEN buckets[key] ELSE NewBucket(created)

\* allow_request: tokens after "add tokens based on time passed"
AddTokens(tokens, time_passed, max_calls, period) ==
    Min(max_calls * period, tokens + time_passed * max_calls)

\* allow_request: the bucket it leaves and its answer
Allowed(tokens, period) == tokens >= period

TakeToken(tokens, period) ==
    IF Allowed(tokens, period) THEN tokens - period ELSE tokens

\* mutant: one bucket for all keys
SetBucket_Shared(key, bucket) ==
    [k \in DOMAIN buckets \cup {key} |-> bucket]

\* the bucket of `key` after the call, the other buckets as they were
SetBucket(key, bucket) ==
    [k \in DOMAIN buckets \cup {key} |-> IF k = key THEN bucket ELSE buckets[k]]

\* the body of allow_request(key, max_calls, period)
AllowRequestBody(key, gap) ==
    /\ now + gap <= MaxTime
    /\ LET created == IF key \in DOMAIN buckets THEN now ELSE now + gap
           bucket == BucketAt(key, created)
           time_passed == now - bucket.last_update
           tokens == AddTokens(bucket.tokens, time_passed, rl_max_calls, rl_period)
           after == [tokens |-> TakeToken(tokens, rl_period), last_update |-> now]
       IN /\ buckets' = SetBucket(key, after)
          /\ rl_result' = [key |-> key, allowed |-> Allowed(tokens, rl_period),
                           first |-> key \notin DOMAIN buckets]
          /\ now' = created

allow_request(key, gap) ==
    /\ "RateLimiter" \in objects
    /\ AllowRequestBody(key, gap)
    /\ UNCHANGED <<objects, limitVars, pointsVars, dbVars, threadVars, today, tbVars,
                   rl_max_calls, rl_period, rl_wait, retryVars, cacheVars, clientVars>>

AllowRequest == \E key \in RLKeys, gap \in 0..MaxGap : allow_request(key, gap)

\* mutant: the time for a whole token, whatever the bucket holds
WaitFor_Whole(tokens) == IF tokens >= rl_period THEN 0 ELSE rl_period

\* wait_time: 0.0 with a token in the bucket, else
\* (1 - tokens) * period / max_calls; here times max_calls
WaitFor(tokens) == IF tokens >= rl_period THEN 0 ELSE rl_period - tokens

\* the body of wait_time(key, max_calls, period); self.buckets[key] creates
\* the bucket of a key that has none
WaitTimeBody(key) ==
    LET bucket == BucketAt(key, now)
    IN /\ buckets' = SetBucket(key, bucket)
       /\ rl_wait' = [key |-> key, wait |-> WaitFor(bucket.tokens)]

wait_time(key) ==
    /\ "RateLimiter" \in objects
    /\ WaitTimeBody(key)
    /\ UNCHANGED <<objects, limitVars, pointsVars, dbVars, threadVars, now, today, tbVars,
                   rl_max_calls, rl_period, rl_result, retryVars, cacheVars, clientVars>>

WaitTimeQuery == \E key \in RLKeys : wait_time(key)

\* ------------------------------------------------------------ rate_limit
LimitIdle ==
    /\ w_pc = "idle" /\ w_key = "none"
    /\ w_sleeps = 0 /\ w_calls = 0

\* wrapper(*args, **kwargs): the key is key_func(*args, **kwargs), or the
\* function's name when there is no key_func
limited_call(key) ==
    /\ "rate_limit" \in objects
    /\ w_pc \in {"idle", "invoked"}
    /\ w_calls < MaxLimitedCalls
    /\ w_pc' = "check"
    /\ w_key' = key
    /\ w_sleeps' = 0
    /\ w_calls' = w_calls + 1
    /\ UNCHANGED <<objects, pointsVars, dbVars, threadVars, now, today, tbVars, rlVars,
                   retryVars, cacheVars, clientVars>>

\* while not _rate_limiter.allow_request(key, max_calls, period): ...
\* return func(*args, **kwargs)
limited_check(gap) ==
    /\ "rate_limit" \in objects
    /\ w_pc = "check"
    /\ AllowRequestBody(w_key, gap)
    /\ w_pc' = IF rl_result'.allowed THEN "invoked" ELSE "wait"
    /\ UNCHANGED <<objects, pointsVars, dbVars, threadVars, today, tbVars, rl_max_calls,
                   rl_period, rl_wait, w_key, w_sleeps, w_calls, retryVars, cacheVars,
                   clientVars>>

\* ticks slept by time.sleep(seconds): the clock is in whole ticks, and the
\* sleep lasts no less than asked for
Slept(wait) == (wait + rl_max_calls - 1) \div rl_max_calls

\* wait_time = _rate_limiter.wait_time(key, max_calls, period)
\* time.sleep(wait_time)
limited_sleep ==
    /\ "rate_limit" \in objects
    /\ w_pc = "wait"
    /\ WaitTimeBody(w_key)
    /\ now + Slept(rl_wait'.wait) <= MaxTime
    /\ now' = now + Slept(rl_wait'.wait)
    /\ w_pc' = "check"
    /\ w_sleeps' = w_sleeps + 1
    /\ UNCHANGED <<objects, pointsVars, dbVars, threadVars, today, tbVars, rl_max_calls,
                   rl_period, rl_result, w_key, w_calls, retryVars, cacheVars,
                   clientVars>>

LimitedCall == \E key \in RLKeys : limited_call(key)

LimitedCheck == \E gap \in 0..MaxGap : limited_check(gap)

\* ------------------------------------------------- retry / async_retry
\* what one invocation of the wrapped function does: it returns, it raises an
\* exception of a type listed in `exceptions`, or it raises another exception
Outcomes == {"ok", "retryable", "other"}

RetryIdle ==
    /\ r_flavor = "none"
    /\ r_max_attempts = 0 /\ r_delay = 0 /\ r_backoff = 0
    /\ r_pc = "idle" /\ r_attempt = 0 /\ r_current_delay = 0
    /\ r_outcomes = << >> /\ r_sleeps = << >> /\ r_done = 0

\* the decorator's arguments; the wrapper has not been called yet
RetryInit ==
    /\ r_flavor \in {"retry", "async_retry"}
    /\ r_max_attempts \in 0..MaxAttempts
    /\ r_delay \in 1..MaxDelay
    /\ r_backoff \in 1..MaxBackoff
    /\ r_pc = "ready" /\ r_attempt = 0 /\ r_current_delay = 0
    /\ r_outcomes = << >> /\ r_sleeps = << >> /\ r_done = 0

\* mutant: `except Exception` instead of the listed types
Caught_Any(outcome) == outcome # "ok"

\* `except exceptions as e`
Caught(outcome) == outcome = "retryable"

\* mutant: the last attempt is not recognised, so the loop runs out
LastAttempt_Never(attempt, max_attempts) == attempt > max_attempts

\* the except block: re-raise on the last attempt, otherwise sleep and loop
LastAttempt(attempt, max_attempts) == attempt = max_attempts

\* mutant: the delay grows by addition
NextDelay_Additive(current_delay, backoff) == current_delay + backoff

\* current_delay *= backoff
NextDelay(current_delay, backoff) == current_delay * backoff

\* wrapper entry: current_delay = delay, and range(1, max_attempts + 1) is
\* empty for max_attempts < 1, when the wrapper falls off its end
wrapper_enter ==
    /\ "retry" \in objects
    /\ r_pc = "ready"
    /\ r_current_delay' = r_delay
    /\ r_attempt' = 1
    /\ r_pc' = IF r_max_attempts >= 1 THEN "running" ELSE "returned"
    /\ UNCHANGED <<objects, limitVars, pointsVars, dbVars, threadVars, now, today, tbVars, rlVars, r_flavor, r_max_attempts,
                   r_delay, r_backoff, r_outcomes, r_sleeps, r_done, cacheVars,
                   clientVars>>

\* one iteration of the for loop
wrapper_attempt(outcome) ==
    /\ "retry" \in objects
    /\ r_pc = "running"
    /\ r_outcomes' = Append(r_outcomes, outcome)
    /\ IF outcome = "ok"
       THEN /\ r_pc' = "returned"
            /\ r_done' = Len(r_outcomes) + 1
            /\ UNCHANGED <<r_attempt, r_current_delay, r_sleeps>>
       ELSE IF ~Caught(outcome) \/ LastAttempt(r_attempt, r_max_attempts)
       THEN /\ r_pc' = "raised"
            /\ r_done' = Len(r_outcomes) + 1
            /\ UNCHANGED <<r_attempt, r_current_delay, r_sleeps>>
       ELSE /\ r_sleeps' = Append(r_sleeps, r_current_delay)
            /\ r_current_delay' = NextDelay(r_current_delay, r_backoff)
            /\ r_attempt' = r_attempt + 1
            /\ r_pc' = IF r_attempt + 1 <= r_max_attempts THEN "running" ELSE "returned"
            /\ UNCHANGED r_done
    /\ UNCHANGED <<objects, limitVars, pointsVars, dbVars, threadVars, now, today, tbVars, rlVars, r_flavor, r_max_attempts,
                   r_delay, r_backoff, cacheVars, clientVars>>

WrapperAttempt == \E outcome \in Outcomes : wrapper_attempt(outcome)

\* ---------------------------------------------------------------- cached
\* ttl is an optional float: << >> is None, <<t>> is ttl=t
NoTtl == << >>

Ttl(t) == <<t>>

\* c_last: the call's key, whether it was served from the cache, whether the
\* function raised, the value returned, the time of the call, the key it
\* evicted, and what was known of its key before: the time of the latest
\* store (prev), whether that entry had been evicted since (lost) and whether
\* a clear had removed it since (cleared)
NoCall == [key |-> "none", hit |-> FALSE, raised |-> FALSE, value |-> 0,
           at |-> 0, evicted |-> "none", prev |-> -1, lost |-> FALSE,
           cleared |-> FALSE]

CacheIdle ==
    /\ c_ttl = NoTtl /\ c_maxsize = 0
    /\ cache = << >> /\ cache_times = << >>
    /\ c_invocations = 0
    /\ c_stored_at = << >> /\ c_evicted = {} /\ c_cleared = {}
    /\ c_last = NoCall

\* decorator(func): cache = {}, cache_times = {}
CacheInit ==
    /\ c_ttl \in {NoTtl} \cup {Ttl(t) : t \in 1..MaxTtl}
    /\ c_maxsize \in 1..MaxSize
    /\ cache = << >> /\ cache_times = << >>
    /\ c_invocations = 0
    /\ c_stored_at = [k \in CacheKeys |-> -1]
    /\ c_evicted = {} /\ c_cleared = {}
    /\ c_last = NoCall

TimedKeys == {cache_times[i].key : i \in 1..Len(cache_times)}

Index(key) == CHOOSE i \in 1..Len(cache_times) : cache_times[i].key = key

TimeOf(key) == cache_times[Index(key)].time

\* mutant: an entry of age exactly ttl still counts as valid
Fresh_Inclusive(key, t) ==
    /\ key \in DOMAIN cache
    /\ (c_ttl = NoTtl \/ t - TimeOf(key) <= c_ttl[1])

\* "cached value exists and is valid"
Fresh(key, t) ==
    /\ key \in DOMAIN cache
    /\ (c_ttl = NoTtl \/ t - TimeOf(key) < c_ttl[1])

\* mutant: the wrapper evicts only once the cache holds more than maxsize entries
Full_Over == Cardinality(DOMAIN cache) > c_maxsize

\* len(cache) >= maxsize
Full == Cardinality(DOMAIN cache) >= c_maxsize

\* mutant: max instead of min, the newest entry is evicted
OldestKey_Newest ==
    LET i == CHOOSE i \in 1..Len(cache_times) :
                 /\ \A j \in 1..Len(cache_times) :
                        cache_times[i].time >= cache_times[j].time
                 /\ \A j \in 1..(i - 1) :
                        cache_times[j].time < cache_times[i].time
    IN cache_times[i].key

\* min(cache_times, key=cache_times.get): the first key, in dict order, of
\* those with the smallest time
OldestKey ==
    LET i == CHOOSE i \in 1..Len(cache_times) :
                 /\ \A j \in 1..Len(cache_times) :
                        cache_times[i].time <= cache_times[j].time
                 /\ \A j \in 1..(i - 1) :
                        cache_times[j].time > cache_times[i].time
    IN cache_times[i].key

Without(seq, key) == SelectSeq(seq, LAMBDA e : e.key # key)

\* cache_times[key] = t: an existing key keeps its place in the dict, a new
\* one goes last
Stamp(seq, key, t) ==
    IF \E i \in 1..Len(seq) : seq[i].key = key
    THEN [i \in 1..Len(seq) |->
             IF seq[i].key = key THEN [key |-> key, time |-> t] ELSE seq[i]]
    ELSE Append(seq, [key |-> key, time |-> t])

Drop(f, key) == [k \in DOMAIN f \ {key} |-> f[k]]

Put(f, key, v) == [k \in DOMAIN f \cup {key} |-> IF k = key THEN v ELSE f[k]]

\* mutant: the store runs although the function raised
Computed_Always(returns) == TRUE

\* `result = func(*args, **kwargs)`: the statements after it run only when
\* the function returned
Computed(returns) == returns

\* the wrapper, for the call whose cache key is `key`; when the wrapped
\* function is invoked it takes `duration` ticks and returns or raises
cached_call(key, returns, duration) ==
    /\ "cached" \in objects
    /\ IF Fresh(key, now)
       THEN /\ c_last' = [key |-> key, hit |-> TRUE, raised |-> FALSE,
                          value |-> cache[key], at |-> now, evicted |-> "none",
                          prev |-> c_stored_at[key], lost |-> key \in c_evicted,
                          cleared |-> key \in c_cleared]
            /\ UNCHANGED <<now, cache, cache_times, c_invocations, c_stored_at,
                           c_evicted, c_cleared>>
       ELSE /\ c_invocations < MaxInvocations
            /\ now + duration <= MaxTime
            /\ now' = now + duration
            /\ c_invocations' = c_invocations + 1
            /\ IF ~Computed(returns)
               THEN /\ c_last' = [key |-> key, hit |-> FALSE, raised |-> TRUE,
                                  value |-> 0, at |-> now, evicted |-> "none",
                                  prev |-> c_stored_at[key],
                                  lost |-> key \in c_evicted,
                                  cleared |-> key \in c_cleared]
                    /\ UNCHANGED <<cache, cache_times, c_stored_at, c_evicted,
                                   c_cleared>>
               ELSE LET result == c_invocations + 1
                        oldest_key == IF Full THEN OldestKey ELSE "none"
                        cache1 == IF Full THEN Drop(cache, oldest_key) ELSE cache
                        times1 == IF Full THEN Without(cache_times, oldest_key)
                                          ELSE cache_times
                    IN /\ cache' = Put(cache1, key, result)
                       /\ cache_times' = Stamp(times1, key, now')
                       /\ c_stored_at' = [c_stored_at EXCEPT ![key] = now']
                       /\ c_evicted' = (c_evicted \cup
                                          (IF Full THEN {oldest_key} ELSE {})) \ {key}
                       /\ c_cleared' = c_cleared \ {key}
                       /\ c_last' = [key |-> key, hit |-> FALSE, raised |-> ~returns,
                                     value |-> result, at |-> now,
                                     evicted |-> oldest_key,
                                     prev |-> c_stored_at[key],
                                     lost |-> key \in c_evicted,
                                     cleared |-> key \in c_cleared]
    /\ UNCHANGED <<objects, limitVars, pointsVars, dbVars, threadVars, today, tbVars, rlVars, retryVars, c_ttl, c_maxsize,
                   clientVars>>

CachedCall ==
    \E key \in CacheKeys, returns \in BOOLEAN, duration \in 0..MaxDuration :
        cached_call(key, returns, duration)

\* mutant: only the entries that have expired are removed
CacheClear_Expired ==
    /\ cache' = [k \in {j \in DOMAIN cache : Fresh(j, now)} |-> cache[k]]
    /\ cache_times' = SelectSeq(cache_times, LAMBDA e : Fresh(e.key, now))

\* cache.clear(), cache_times.clear()
CacheClear ==
    /\ cache' = << >>
    /\ cache_times' = << >>

\* wrapper.cache_clear()
cache_clear ==
    /\ "cached" \in objects
    /\ CacheClear
    /\ c_cleared' = DOMAIN cache
    /\ UNCHANGED <<objects, limitVars, pointsVars, dbVars, threadVars, now, today, tbVars, rlVars, retryVars,
                   c_ttl, c_maxsize, c_invocations, c_stored_at, c_evicted, c_last,
                   clientVars>>

\* ---------------------------------------------------- StaticDataService
\* the static methods decorated with @cached(ttl=86400, maxsize=...)
CachedLookups ==
    {"get_teams_by_league", "get_league_info", "get_all_leagues",
     "get_player_info", "search_teams", "search_players", "get_team_by_id"}

\* the lookups whose cache_clear() is called by clear_cache()
ClearedLookups ==
    {"get_teams_by_league", "get_league_info", "get_all_leagues",
     "get_player_info", "search_teams", "search_players", "get_team_by_id"}

\* StaticDataService.clear_cache(), as it acts on the cache of lookup f
clear_cache(f) ==
    /\ "StaticDataService" \in objects
    /\ IF f \in ClearedLookups
       THEN CacheClear
       ELSE UNCHANGED <<cache, cache_times>>
    /\ c_cleared' = DOMAIN cache
    /\ UNCHANGED <<objects, limitVars, pointsVars, dbVars, threadVars, now, today, tbVars, rlVars, retryVars,
                   c_ttl, c_maxsize, c_invocations, c_stored_at, c_evicted, c_last,
                   clientVars>>

ClearCache == \E f \in CachedLookups : clear_cache(f)

\* ----------------------------------------------------- APIFootballClient
\* @retry(max_attempts=3, delay=1.0, backoff=2.0,
\*        exceptions=(requests.exceptions.RequestException,)) on _make_request
ClientMaxAttempts == 3
ClientDelay == 1
ClientBackoff == 2

ReqKeys == {"fixtures?date=d1", "fixtures?date=d2"}

\* how session.get can end: a response with a status (200 with or without an
\* `errors` payload, 401, 429, any other status such as 5xx), a Timeout, or
\* another RequestException (connection error, RetryError of the adapter)
HttpOutcomes == {"200", "200errors", "401", "429", "5xx", "Timeout",
                 "RequestException"}

\* mutant: a 401 and an `errors` payload surface as transport errors
MakeRequestRaises_Transport(http) ==
    CASE http = "200" -> "none"
      [] http = "200errors" -> "RequestException"
      [] http = "401" -> "RequestException"
      [] http = "429" -> "RateLimitExceededError"
      [] http = "5xx" -> "APIFootballError"
      [] http = "Timeout" -> "APIFootballError"
      [] http = "RequestException" -> "APIFootballError"

\* _make_request: the exception it raises for each outcome of session.get;
\* "none" when it returns the data
MakeRequestRaises(http) ==
    CASE http = "200" -> "none"
      [] http = "200errors" -> "APIFootballError"
      [] http = "401" -> "AuthenticationError"
      [] http = "429" -> "RateLimitExceededError"
      [] http = "5xx" -> "APIFootballError"
      [] http = "Timeout" -> "APIFootballError"
      [] http = "RequestException" -> "APIFootballError"

\* mutant: the wrapper catches every exception
ClientCaught_Any(error) == TRUE

\* the retry wrapper's `except exceptions`: only RequestException and its
\* subclasses; the APIFootballError family derives from Exception
ClientCaught(error) == error = "RequestException"

NoLog == [calls |-> 0, tokens |-> 0, gets |-> 0]

ClientIdle ==
    /\ a_pc = "none" /\ a_key = "none"
    /\ a_attempt = 0 /\ a_current_delay = 0 /\ a_sleeps = 0
    /\ a_gets = 0 /\ a_http = "none" /\ a_error = "none"
    /\ a_log = << >> /\ a_total_gets = 0

\* APIFootballClient.__init__
ClientInit ==
    /\ a_pc = "idle" /\ a_key = "none"
    /\ a_attempt = 0 /\ a_current_delay = 0 /\ a_sleeps = 0
    /\ a_gets = 0 /\ a_http = "none" /\ a_error = "none"
    /\ a_log = [k \in ReqKeys |-> NoLog]
    /\ a_total_gets = 0

RECURSIVE CallsOf(_)
CallsOf(keys) ==
    IF keys = {} THEN 0
    ELSE LET k == CHOOSE k \in keys : TRUE
         IN a_log[k].calls + CallsOf(keys \ {k})

\* accessor calls made so far
Calls == CallsOf(ReqKeys)

\* an accessor (get_fixtures_by_date, ...) builds its params and enters the
\* retry wrapper around _make_request
accessor_call(key) ==
    /\ "APIFootballClient" \in objects
    /\ a_pc \in {"idle", "returned", "raised"}
    /\ Calls < MaxRequests
    /\ a_pc' = "running"
    /\ a_key' = key
    /\ a_attempt' = 1
    /\ a_current_delay' = ClientDelay
    /\ a_sleeps' = 0 /\ a_gets' = 0
    /\ a_http' = "none" /\ a_error' = "none"
    /\ a_log' = [a_log EXCEPT ![key].calls = @ + 1]
    /\ UNCHANGED <<objects, limitVars, pointsVars, dbVars, threadVars, now, today, tbVars, rlVars, retryVars, cacheVars,
                   a_total_gets>>

\* one attempt of the retry wrapper: _make_request acquires a token, then
\* calls session.get, which ends as `http`; the wrapper returns, re-raises,
\* or sleeps and loops
make_request_attempt(http) ==
    /\ "APIFootballClient" \in objects
    /\ a_pc = "running"
    /\ Acquire
    /\ LET granted == tb_result' = "granted"
           error == IF granted THEN MakeRequestRaises(http)
                               ELSE "RateLimitExceededError(local)"
           g == IF granted THEN 1 ELSE 0
       IN /\ a_gets' = a_gets + g
          /\ a_total_gets' = a_total_gets + g
          /\ a_http' = IF granted THEN http ELSE "none"
          /\ a_log' = [a_log EXCEPT ![a_key].tokens = @ + g, ![a_key].gets = @ + g]
          /\ IF error = "none"
             THEN /\ a_pc' = "returned"
                  /\ UNCHANGED <<a_attempt, a_current_delay, a_sleeps, a_error>>
             ELSE IF ~ClientCaught(error) \/ LastAttempt(a_attempt, ClientMaxAttempts)
             THEN /\ a_pc' = "raised"
                  /\ a_error' = error
                  /\ UNCHANGED <<a_attempt, a_current_delay, a_sleeps>>
             ELSE /\ a_sleeps' = a_sleeps + 1
                  /\ a_current_delay' = NextDelay(a_current_delay, ClientBackoff)
                  /\ a_attempt' = a_attempt + 1
                  /\ a_pc' = "running"
                  /\ UNCHANGED a_error
    /\ UNCHANGED <<objects, shadow, limitVars, pointsVars, dbVars, threadVars, now, today, per_minute, per_day, rlVars, retryVars,
                   cacheVars, a_key>>

AccessorCall == \E key \in ReqKeys : accessor_call(key)

MakeRequestAttempt == \E http \in HttpOutcomes : make_request_attempt(http)

\* --------------------------------------------------------- SupabaseClient
\* @retry(max_attempts=3, delay=1.0) on every method; backoff is the
\* decorator's default
DbMaxAttempts == 3
DbDelay == 1
DbBackoff == 2


DbOps == {"get_user_by_telegram_id", "create_user", "update_user", "deduct_point",
          "process_referral", "get_user_referrals", "log_request",
          "get_user_preferences", "update_user_preferences"}

\* how the backend call of a method ends: it answers, or the client library
\* raises (network failure, API error)
BackendOutcomes == {"ok", "fail"}

\* what the `except Exception` block of each method returns
DbDefault(op) ==
    CASE op \in {"get_user_by_telegram_id", "create_user", "get_user_preferences"}
           -> "None"
      [] op \in {"update_user", "log_request", "update_user_preferences"} -> "False"
      [] op = "deduct_point" -> "not allowed"
      [] op = "process_referral" -> "no success"
      [] op = "get_user_referrals" -> "[]"

\* what each method returns when its backend call answered; a lookup of a
\* user without a row yields None
DbValue(op, exists) ==
    CASE op \in {"get_user_by_telegram_id", "get_user_preferences"}
           -> IF exists THEN "row" ELSE "None"
      [] op = "create_user" -> "row"
      [] op \in {"update_user", "log_request", "update_user_preferences"} -> "True"
      [] op = "deduct_point" -> "allowed"
      [] op = "process_referral" -> "success"
      [] op = "get_user_referrals" -> "list"

\* a method body: try: <backend call>; return <value>
\*                except Exception: <log>; return <default>
DbBody(op, backend, exists) ==
    [raised |-> FALSE,
     value |-> IF backend = "ok" THEN DbValue(op, exists) ELSE DbDefault(op)]

\* the INSERT of create_user adds a row when the backend accepts it
Inserted(op, backend) == IF op = "create_user" /\ backend = "ok" THEN 1 ELSE 0

DBIdle ==
    /\ users = 0
    /\ d_pc = "none" /\ d_op = "none"
    /\ d_attempt = 0 /\ d_current_delay = 0 /\ d_sleeps = << >>
    /\ d_sent = 0 /\ d_failed = FALSE /\ d_value = "none" /\ d_calls = 0
    /\ h_pc = "none" /\ h_referral = FALSE /\ h_existed = FALSE /\ h_reply = "none"

\* SupabaseClient.__init__; the Telegram user may already have a row
DBInit ==
    /\ users \in 0..1
    /\ d_pc = "idle" /\ d_op = "none"
    /\ d_attempt = 0 /\ d_current_delay = 0 /\ d_sleeps = << >>
    /\ d_sent = 0 /\ d_failed = FALSE /\ d_value = "none" /\ d_calls = 0
    /\ h_pc = "idle" /\ h_referral = FALSE /\ h_existed = FALSE /\ h_reply = "none"

\* entry of the retry wrapper around method `op`
DbEnter(op) ==
    /\ d_pc' = "running"
    /\ d_op' = op
    /\ d_attempt' = 1
    /\ d_current_delay' = DbDelay
    /\ d_sleeps' = << >>
    /\ d_sent' = 0
    /\ d_failed' = FALSE
    /\ d_value' = "none"

\* a caller other than /start (points middleware, callbacks) calls a method
db_call(op) ==
    /\ "SupabaseClient" \in objects
    /\ h_pc \in {"idle", "done"}
    /\ d_pc \in {"idle", "returned", "raised"}
    /\ d_calls < MaxDbCalls
    /\ DbEnter(op)
    /\ d_calls' = d_calls + 1
    /\ UNCHANGED <<objects, limitVars, pointsVars, now, today, tbVars, rlVars, retryVars, cacheVars,
                   clientVars, threadVars, users, h_pc, h_referral, h_existed,
                   h_reply>>

\* one attempt of the retry wrapper: the method body sends its backend call,
\* which ends as `backend`; the wrapper returns, re-raises, or sleeps and loops
db_attempt(backend) ==
    /\ "SupabaseClient" \in objects
    /\ d_pc = "running"
    /\ LET body == DbBody(d_op, backend, users > 0)
       IN /\ d_sent' = d_sent + 1
          /\ d_failed' = (backend = "fail")
          /\ users' = users + Inserted(d_op, backend)
          /\ IF ~body.raised
             THEN /\ d_pc' = "returned"
                  /\ d_value' = body.value
                  /\ UNCHANGED <<d_attempt, d_current_delay, d_sleeps>>
             ELSE IF LastAttempt(d_attempt, DbMaxAttempts)
             THEN /\ d_pc' = "raised"
                  /\ UNCHANGED <<d_attempt, d_current_delay, d_sleeps, d_value>>
             ELSE /\ d_sleeps' = Append(d_sleeps, d_current_delay)
                  /\ d_current_delay' = NextDelay(d_current_delay, DbBackoff)
                  /\ d_attempt' = d_attempt + 1
                  /\ d_pc' = "running"
                  /\ UNCHANGED d_value
    /\ UNCHANGED <<objects, limitVars, pointsVars, now, today, tbVars, rlVars, retryVars, cacheVars,
                   clientVars, threadVars, d_op, d_calls, h_pc, h_referral,
                   h_existed, h_reply>>

DbCall == \E op \in DbOps : db_call(op)

DbAttempt == \E backend \in BackendOutcomes : db_attempt(backend)

\* ---------------------------------------------------------------- /start
\* start_command up to its first database call: the lookup of the user
start_command(referral) ==
    /\ "SupabaseClient" \in objects
    /\ h_pc \in {"idle", "done"}
    /\ d_pc \in {"idle", "returned", "raised"}
    /\ d_calls < MaxDbCalls
    /\ h_pc' = "lookup"
    /\ h_referral' = referral
    /\ h_existed' = (users > 0)
    /\ h_reply' = "none"
    /\ DbEnter("get_user_by_telegram_id")
    /\ d_calls' = d_calls + 1
    /\ UNCHANGED <<objects, limitVars, pointsVars, now, today, tbVars, rlVars, retryVars, cacheVars,
                   clientVars, threadVars, users>>

\* start_command from the return of one database call to the next one, or
\* to its end
start_continue ==
    /\ "SupabaseClient" \in objects
    /\ h_pc \in {"lookup", "update", "create", "referral", "prefs"}
    /\ d_pc \in {"returned", "raised"}
    /\ IF d_pc = "raised"
       THEN /\ h_reply' = "error"
            /\ h_pc' = "done"
            /\ UNCHANGED <<d_pc, d_op, d_attempt, d_current_delay, d_sleeps,
                           d_sent, d_failed, d_value>>
       ELSE CASE h_pc = "lookup" ->
                   /\ IF d_value = "row"
                      THEN /\ h_pc' = "update" /\ DbEnter("update_user")
                      ELSE /\ h_pc' = "create" /\ DbEnter("create_user")
                   /\ UNCHANGED h_reply
              [] h_pc = "update" ->
                   /\ h_reply' = "welcome_back"
                   /\ h_pc' = "done"
                   /\ UNCHANGED <<d_pc, d_op, d_attempt, d_current_delay,
                                  d_sleeps, d_sent, d_failed, d_value>>
              [] h_pc = "create" ->
                   IF d_value = "None"
                   THEN /\ h_reply' = "error"
                        /\ h_pc' = "done"
                        /\ UNCHANGED <<d_pc, d_op, d_attempt, d_current_delay,
                                       d_sleeps, d_sent, d_failed, d_value>>
                   ELSE IF h_referral
                   THEN /\ h_pc' = "referral" /\ DbEnter("process_referral")
                        /\ UNCHANGED h_reply
                   ELSE /\ h_reply' = "welcome"
                        /\ h_pc' = "prefs" /\ DbEnter("update_user_preferences")
              [] h_pc = "referral" ->
                   /\ h_reply' = IF d_value = "success" THEN "welcome_with_referral"
                                                         ELSE "welcome"
                   /\ h_pc' = "prefs" /\ DbEnter("update_user_preferences")
              [] h_pc = "prefs" ->
                   /\ h_pc' = "done"
                   /\ UNCHANGED <<h_reply, d_pc, d_op, d_attempt, d_current_delay,
                                  d_sleeps, d_sent, d_failed, d_value>>
    /\ UNCHANGED <<objects, limitVars, pointsVars, now, today, tbVars, rlVars, retryVars, cacheVars,
                   clientVars, threadVars, users, d_calls, h_referral, h_existed>>

StartCommand == \E referral \in BOOLEAN : start_command(referral)

\* ---------------------------------------------------------------- threads
Threads == 1..NumThreads

ThreadsIdle ==
    /\ lock = 0
    /\ t_pc = << >> /\ t_call = << >> /\ t_local = << >> /\ t_result = << >>

NoTally == [calls |-> 0, granted |-> 0, refused |-> 0, failed |-> 0]

RECURSIVE Tally(_, _)
Tally(ts, field) ==
    IF ts = {} THEN 0
    ELSE LET t == CHOOSE t \in ts : TRUE
         IN t_result[t][field] + Tally(ts \ {t}, field)

\* calls the threads have made so far
ThreadCalls == Tally(Threads, "calls")

\* ------------------------- threads calling into one TokenBucketRateLimiter
\* t_pc: ready (outside any call), lock (at `with self.lock:`), then inside
\* the with block: refill, check, load, store (acquire) or stats
\* (get_usage_stats)
LimiterThreadsInit ==
    /\ lock = 0
    /\ t_pc = [t \in Threads |-> "ready"]
    /\ t_call = [t \in Threads |-> "none"]
    /\ t_local = [t \in Threads |-> NoSeen]
    /\ t_result = [t \in Threads |-> NoTally]

\* the fields of the limiter as a thread reads them
Fields ==
    [minute |-> minute_tokens, day |-> day_tokens,
     minute_requests |-> minute_requests, day_requests |-> day_requests,
     at |-> now]

\* mutant: the lock excludes nobody
CanLock_Always(holder) == TRUE

\* Lock.acquire(): it blocks while another thread holds the lock
CanLock(holder) == holder = 0

\* a thread calls acquire() or get_usage_stats()
th_call(t, call) ==
    /\ "threads" \in objects /\ "TokenBucketRateLimiter" \in objects
    /\ t_pc[t] = "ready"
    /\ ThreadCalls < MaxThreadCalls
    /\ t_pc' = [t_pc EXCEPT ![t] = "lock"]
    /\ t_call' = [t_call EXCEPT ![t] = call]
    /\ t_result' = [t_result EXCEPT ![t].calls = @ + 1]
    /\ UNCHANGED <<objects, limitVars, pointsVars, dbVars, now, today, tbVars, rlVars, retryVars, cacheVars,
                   clientVars, lock, t_local>>

\* `with self.lock:` is entered
th_lock(t) ==
    /\ "threads" \in objects /\ "TokenBucketRateLimiter" \in objects
    /\ t_pc[t] = "lock"
    /\ CanLock(lock)
    /\ lock' = t
    /\ t_pc' = [t_pc EXCEPT ![t] = "refill"]
    /\ UNCHANGED <<objects, limitVars, pointsVars, dbVars, now, today, tbVars, rlVars, retryVars, cacheVars,
                   clientVars, t_call, t_local, t_result>>

\* self._refill_tokens()
th_refill(t) ==
    /\ "threads" \in objects /\ "TokenBucketRateLimiter" \in objects
    /\ t_pc[t] = "refill"
    /\ LET r == Refilled
       IN /\ RefillStamps
          /\ minute_tokens' = r.minute
          /\ day_tokens' = r.day
          /\ day_requests' = r.day_requests
    /\ t_pc' = [t_pc EXCEPT ![t] = IF t_call[t] = "acquire" THEN "check" ELSE "stats"]
    /\ UNCHANGED <<objects, limitVars, pointsVars, dbVars, now, today, per_minute, per_day, minute_requests,
                   tb_result, tb_seen, tb_wait, tb_prev, shadow, rlVars, retryVars,
                   cacheVars,
                   clientVars, lock, t_call, t_local, t_result>>

\* acquire(): the two checks; a refusal raises, which leaves the with block
\* and releases the lock
th_check(t) ==
    /\ "threads" \in objects /\ "TokenBucketRateLimiter" \in objects
    /\ t_pc[t] = "check"
    /\ IF Verdict(Fields) = "granted"
       THEN /\ t_pc' = [t_pc EXCEPT ![t] = "load"]
            /\ UNCHANGED <<lock, t_result>>
       ELSE /\ t_pc' = [t_pc EXCEPT ![t] = "ready"]
            /\ t_result' = [t_result EXCEPT ![t].refused = @ + 1]
            /\ lock' = 0
    /\ UNCHANGED <<objects, limitVars, pointsVars, dbVars, now, today, tbVars, rlVars, retryVars, cacheVars,
                   clientVars, t_call, t_local>>

\* acquire(), "Consume tokens": the four `-= 1` / `+= 1` read their fields
th_load(t) ==
    /\ "threads" \in objects /\ "TokenBucketRateLimiter" \in objects
    /\ t_pc[t] = "load"
    /\ t_local' = [t_local EXCEPT ![t] = Fields]
    /\ t_pc' = [t_pc EXCEPT ![t] = "store"]
    /\ UNCHANGED <<objects, limitVars, pointsVars, dbVars, now, today, tbVars, rlVars, retryVars, cacheVars,
                   clientVars, lock, t_call, t_result>>

\* ... and write them back; `return True` leaves the with block and releases
\* the lock
th_store(t) ==
    /\ "threads" \in objects /\ "TokenBucketRateLimiter" \in objects
    /\ t_pc[t] = "store"
    /\ LET s == Consume(t_local[t], "granted")
       IN /\ minute_tokens' = s.minute
          /\ day_tokens' = s.day
          /\ minute_requests' = s.minute_requests
          /\ day_requests' = s.day_requests
    /\ t_pc' = [t_pc EXCEPT ![t] = "ready"]
    /\ t_result' = [t_result EXCEPT ![t].granted = @ + 1]
    /\ lock' = 0
    /\ UNCHANGED <<objects, limitVars, pointsVars, dbVars, now, today, per_minute, per_day,
                   minute_last_update, day_last_update, day_start,
                   tb_result, tb_seen, tb_wait, tb_prev, shadow, rlVars, retryVars,
                   cacheVars,
                   clientVars, t_call, t_local>>

\* get_usage_stats(): the dict is built from the fields and returned, which
\* releases the lock
th_stats(t) ==
    /\ "threads" \in objects /\ "TokenBucketRateLimiter" \in objects
    /\ t_pc[t] = "stats"
    /\ t_local' = [t_local EXCEPT ![t] = Fields]
    /\ t_pc' = [t_pc EXCEPT ![t] = "ready"]
    /\ lock' = 0
    /\ UNCHANGED <<objects, limitVars, pointsVars, dbVars, now, today, tbVars, rlVars, retryVars, cacheVars,
                   clientVars, t_call, t_result>>

ThCall == \E t \in Threads, call \in {"acquire", "get_usage_stats"} : th_call(t, call)

ThLock == \E t \in Threads : th_lock(t)

ThRefill == \E t \in Threads : th_refill(t)

ThCheck == \E t \in Threads : th_check(t)

ThLoad == \E t \in Threads : th_load(t)

ThStore == \E t \in Threads : th_store(t)

ThStats == \E t \in Threads : th_stats(t)

\* ------------------ threads calling one cached function or allow_request
\* neither the cached wrapper nor RateLimiter takes a lock: a thread can be
\* preempted between any two statements.  t_pc: ready, then in the cached
\* wrapper full (before `if len(cache) >= maxsize`), oldest, del_cache,
\* del_times, put_cache, put_times; in allow_request check, take
\* the cache keys the threads call with
RaceKeys == {"a", "b"}

NoLocal == [key |-> "none", result |-> 0, oldest |-> "none"]

RaceThreadsInit ==
    /\ lock = 0
    /\ t_pc = [t \in Threads |-> "ready"]
    /\ t_call = [t \in Threads |-> "none"]
    /\ t_local = [t \in Threads |-> NoLocal]
    /\ t_result = [t \in Threads |-> NoTally]

\* a step of a thread to position pc
Goto(t, pc) == t_pc' = [t_pc EXCEPT ![t] = pc]

\* an exception raised by the wrapper's own dict operations ends the call
Fails(t) ==
    /\ Goto(t, "ready")
    /\ t_result' = [t_result EXCEPT ![t].failed = @ + 1]

\* a thread calls the cached function: the cache key, the lookup (`cache_key
\* in cache`, cache_times[cache_key], cache[cache_key]) and, on a miss, the
\* call of the wrapped function
ct_call(t, key) ==
    /\ "threads" \in objects /\ "cached" \in objects
    /\ t_pc[t] = "ready"
    /\ ThreadCalls < MaxThreadCalls
    /\ t_call' = [t_call EXCEPT ![t] = "cached"]
    /\ IF key \in DOMAIN cache /\ c_ttl # NoTtl /\ key \notin TimedKeys
       THEN /\ t_result' = [t_result EXCEPT ![t].calls = @ + 1, ![t].failed = @ + 1]
            /\ UNCHANGED <<t_pc, t_local, c_invocations>>
       ELSE IF Fresh(key, now)
       THEN /\ t_result' = [t_result EXCEPT ![t].calls = @ + 1]
            /\ t_local' = [t_local EXCEPT ![t] =
                              [key |-> key, result |-> cache[key], oldest |-> "none"]]
            /\ UNCHANGED <<t_pc, c_invocations>>
       ELSE /\ c_invocations < MaxInvocations
            /\ t_result' = [t_result EXCEPT ![t].calls = @ + 1]
            /\ c_invocations' = c_invocations + 1
            /\ t_local' = [t_local EXCEPT ![t] =
                              [key |-> key, result |-> c_invocations + 1,
                               oldest |-> "none"]]
            /\ Goto(t, "full")
    /\ UNCHANGED <<objects, limitVars, pointsVars, dbVars, now, today, tbVars, rlVars, retryVars,
                   clientVars, lock, c_ttl, c_maxsize, cache, cache_times,
                   c_stored_at, c_evicted, c_cleared, c_last>>

\* if len(cache) >= maxsize:
ct_full(t) ==
    /\ "threads" \in objects /\ "cached" \in objects
    /\ t_pc[t] = "full"
    /\ Goto(t, IF Full THEN "oldest" ELSE "put_cache")
    /\ UNCHANGED <<objects, limitVars, pointsVars, dbVars, now, today, tbVars, rlVars, retryVars, cacheVars,
                   clientVars, lock, t_call, t_local, t_result>>

\* oldest_key = min(cache_times, key=cache_times.get); min() of an empty dict
\* raises ValueError
ct_oldest(t) ==
    /\ "threads" \in objects /\ "cached" \in objects
    /\ t_pc[t] = "oldest"
    /\ IF cache_times = << >>
       THEN Fails(t) /\ UNCHANGED t_local
       ELSE /\ t_local' = [t_local EXCEPT ![t].oldest = OldestKey]
            /\ Goto(t, "del_cache")
            /\ UNCHANGED t_result
    /\ UNCHANGED <<objects, limitVars, pointsVars, dbVars, now, today, tbVars, rlVars, retryVars, cacheVars,
                   clientVars, lock, t_call>>

\* del cache[oldest_key]; KeyError when another thread has removed it
ct_del_cache(t) ==
    /\ "threads" \in objects /\ "cached" \in objects
    /\ t_pc[t] = "del_cache"
    /\ IF t_local[t].oldest \notin DOMAIN cache
       THEN Fails(t) /\ UNCHANGED cache
       ELSE /\ cache' = Drop(cache, t_local[t].oldest)
            /\ Goto(t, "del_times")
            /\ UNCHANGED t_result
    /\ UNCHANGED <<objects, limitVars, pointsVars, dbVars, now, today, tbVars, rlVars, retryVars,
                   clientVars, lock, t_call, t_local, c_ttl, c_maxsize, cache_times,
                   c_invocations, c_stored_at, c_evicted, c_cleared, c_last>>

\* del cache_times[oldest_key]
ct_del_times(t) ==
    /\ "threads" \in objects /\ "cached" \in objects
    /\ t_pc[t] = "del_times"
    /\ IF t_local[t].oldest \notin TimedKeys
       THEN Fails(t) /\ UNCHANGED cache_times
       ELSE /\ cache_times' = Without(cache_times, t_local[t].oldest)
            /\ Goto(t, "put_cache")
            /\ UNCHANGED t_result
    /\ UNCHANGED <<objects, limitVars, pointsVars, dbVars, now, today, tbVars, rlVars, retryVars,
                   clientVars, lock, t_call, t_local, c_ttl, c_maxsize, cache,
                   c_invocations, c_stored_at, c_evicted, c_cleared, c_last>>

\* cache[cache_key] = result
ct_put_cache(t) ==
    /\ "threads" \in objects /\ "cached" \in objects
    /\ t_pc[t] = "put_cache"
    /\ cache' = Put(cache, t_local[t].key, t_local[t].result)
    /\ Goto(t, "put_times")
    /\ UNCHANGED <<objects, limitVars, pointsVars, dbVars, now, today, tbVars, rlVars, retryVars,
                   clientVars, lock, t_call, t_local, t_result, c_ttl, c_maxsize,
                   cache_times, c_invocations, c_stored_at, c_evicted, c_cleared, c_last>>

\* cache_times[cache_key] = time.time(); return result
ct_put_times(t) ==
    /\ "threads" \in objects /\ "cached" \in objects
    /\ t_pc[t] = "put_times"
    /\ cache_times' = Stamp(cache_times, t_local[t].key, now)
    /\ Goto(t, "ready")
    /\ UNCHANGED <<objects, limitVars, pointsVars, dbVars, now, today, tbVars, rlVars, retryVars,
                   clientVars, lock, t_call, t_local, t_result, c_ttl, c_maxsize,
                   cache, c_invocations, c_stored_at, c_evicted, c_cleared, c_last>>

\* a thread calls allow_request(key, max_calls, period): `now`, the bucket,
\* "add tokens based on time passed" and the new last_update
rt_call(t, key, gap) ==
    /\ "threads" \in objects /\ "RateLimiter" \in objects
    /\ t_pc[t] = "ready"
    /\ ThreadCalls < MaxThreadCalls
    /\ now + gap <= MaxTime
    /\ LET created == IF key \in DOMAIN buckets THEN now ELSE now + gap
           bucket == BucketAt(key, created)
           time_passed == now - bucket.last_update
           tokens == AddTokens(bucket.tokens, time_passed, rl_max_calls, rl_period)
       IN /\ buckets' = Put(buckets, key, [tokens |-> tokens, last_update |-> now])
          /\ now' = created
    /\ t_call' = [t_call EXCEPT ![t] = "allow_request"]
    /\ t_local' = [t_local EXCEPT ![t] = [key |-> key, result |-> 0, oldest |-> "none"]]
    /\ t_result' = [t_result EXCEPT ![t].calls = @ + 1]
    /\ Goto(t, "check")
    /\ UNCHANGED <<objects, limitVars, pointsVars, dbVars, today, tbVars, rl_max_calls, rl_period, rl_result,
                   rl_wait, retryVars, cacheVars, clientVars, lock>>

\* if bucket['tokens'] >= 1: ... else return False
rt_check(t) ==
    /\ "threads" \in objects /\ "RateLimiter" \in objects
    /\ t_pc[t] = "check"
    /\ IF Allowed(buckets[t_local[t].key].tokens, rl_period)
       THEN Goto(t, "take") /\ UNCHANGED t_result
       ELSE /\ Goto(t, "ready")
            /\ t_result' = [t_result EXCEPT ![t].refused = @ + 1]
    /\ UNCHANGED <<objects, limitVars, pointsVars, dbVars, now, today, tbVars, rlVars, retryVars, cacheVars,
                   clientVars, lock, t_call, t_local>>

\* bucket['tokens'] -= 1; return True
rt_take(t) ==
    /\ "threads" \in objects /\ "RateLimiter" \in objects
    /\ t_pc[t] = "take"
    /\ buckets' = [buckets EXCEPT ![t_local[t].key].tokens = @ - rl_period]
    /\ t_result' = [t_result EXCEPT ![t].granted = @ + 1]
    /\ Goto(t, "ready")
    /\ UNCHANGED <<objects, limitVars, pointsVars, dbVars, now, today, tbVars, rl_max_calls, rl_period,
                   rl_result, rl_wait, retryVars, cacheVars, clientVars, lock, t_call,
                   t_local>>

CtCall == \E t \in Threads, key \in RaceKeys : ct_call(t, key)

CtFull == \E t \in Threads : ct_full(t)

CtOldest == \E t \in Threads : ct_oldest(t)

CtDelCache == \E t \in Threads : ct_del_cache(t)

CtDelTimes == \E t \in Threads : ct_del_times(t)

CtPutCache == \E t \in Threads : ct_put_cache(t)

CtPutTimes == \E t \in Threads : ct_put_times(t)

RtCall == \E t \in Threads, key \in RLKeys, gap \in 0..MaxGap : rt_call(t, key, gap)

RtCheck == \E t \in Threads : rt_check(t)

RtTake == \E t \in Threads : rt_take(t)

\* ------------------------------------------------------- requires_points
\* callback data are written word by word, the underscores included:
\* 'team_static_33' is <<"team", "_", "static", "_", "33">>
FREE_NO_API ==
    {<<"menu", "_", "info">>, <<"menu", "_", "points">>,
     <<"menu", "_", "settings">>, <<"referral", "_", "stats">>,
     <<"back", "_", "to", "_", "main">>, <<"menu", "_", "referral">>}

FREE_CACHED ==
    {<<"menu", "_", "teams">>, <<"menu", "_", "leagues">>,
     <<"search", "_", "team">>, <<"search", "_", "player">>,
     <<"team", "_", "static", "_">>, <<"league", "_", "info", "_">>}

REQUIRES_POINTS ==
    {<<"menu", "_", "live">>, <<"menu", "_", "today">>,
     <<"menu", "_", "tomorrow">>, <<"standings">>,
     <<"team", "_", "stats", "_">>, <<"match", "_", "details", "_">>,
     <<"head", "_", "to", "_", "head", "_">>}

\* callback_data.startswith(prefix)
StartsWith(data, prefix) ==
    /\ Len(prefix) <= Len(data)
    /\ SubSeq(data, 1, Len(prefix)) = prefix

\* mutant: only the features listed in REQUIRES_POINTS cost a point
needs_points_Listed(callback_data) ==
    IF callback_data \in FREE_NO_API THEN FALSE
    ELSE IF \E prefix \in FREE_CACHED : StartsWith(callback_data, prefix) THEN FALSE
    ELSE IF \E prefix \in REQUIRES_POINTS : StartsWith(callback_data, prefix) THEN TRUE
    ELSE FALSE

\* PointsChecker.needs_points
needs_points(callback_data) ==
    IF callback_data \in FREE_NO_API THEN FALSE
    ELSE IF \E prefix \in FREE_CACHED : StartsWith(callback_data, prefix) THEN FALSE
    ELSE IF \E prefix \in REQUIRES_POINTS : StartsWith(callback_data, prefix) THEN TRUE
    ELSE TRUE

\* the callback data of the updates handled
CallbackData ==
    {<<"menu", "_", "info">>, <<"menu", "_", "info", "_", "more">>,
     <<"menu", "_", "teams">>, <<"team", "_", "static", "_", "33">>,
     <<"team", "_", "static">>, <<"menu", "_", "live">>,
     <<"team", "_", "stats", "_", "33">>, <<"settings">>}

UpdateKinds == {"CallbackQuery", "Message", "other"}

NoUpdate == [kind |-> "none", data |-> << >>]

\* how the backend answers the deduct_point procedure: the client cannot be
\* had, the call raises, it returns no row, or a row with or without
\* success = true
DeductOutcomes ==
    {"no_client", "exception", "empty", "refused", "free", "premium",
     "premium_warning"}

Denied == [allowed |-> FALSE, points_type |-> "none", show_warning |-> FALSE]

\* SupabaseClient.deduct_point: the dictionary it returns
DeductPoint(backend) ==
    IF backend \in {"exception", "empty", "refused"}
    THEN [Denied EXCEPT !.points_type =
              IF backend = "refused" THEN "free" ELSE "none"]
    ELSE [allowed |-> TRUE,
          points_type |-> IF backend = "free" THEN "free" ELSE "premium",
          show_warning |-> backend = "premium_warning"]

\* PointsChecker.check_and_deduct: the result of deduct_point, or the
\* refusal of the except branch
CheckAndDeduct(backend) ==
    IF backend = "no_client" THEN Denied ELSE DeductPoint(backend)

PointsIdle ==
    /\ p_pc = "idle"
    /\ p_update = NoUpdate
    /\ p_rpcs = 0
    /\ p_result = << >>
    /\ p_alert = FALSE
    /\ p_ran = FALSE
    /\ p_updates = 0

\* wrapper(call_or_message), up to the first await: a callback query that
\* needs points goes on to check_and_deduct, anything else runs the handler
wrapper_call(kind, data) ==
    /\ "requires_points" \in objects
    /\ p_pc \in {"idle", "done"}
    /\ p_updates < MaxUpdates
    /\ p_updates' = p_updates + 1
    /\ p_update' = [kind |-> kind,
                    data |-> IF kind = "CallbackQuery" THEN data ELSE << >>]
    /\ p_rpcs' = 0
    /\ p_result' = << >>
    /\ p_alert' = FALSE
    /\ IF kind = "CallbackQuery" /\ needs_points(data)
       THEN p_pc' = "deduct" /\ p_ran' = FALSE
       ELSE p_pc' = "done" /\ p_ran' = TRUE
    /\ UNCHANGED <<objects, limitVars, dbVars, threadVars, now, today, tbVars, rlVars,
                   retryVars, cacheVars, clientVars>>

\* result = await PointsChecker.check_and_deduct(user_id) and what follows:
\* the alert of a refusal, or call.answer and the handler; the handler is not
\* reached when call.answer raises
wrapper_deduct(backend, answered) ==
    /\ "requires_points" \in objects
    /\ p_pc = "deduct"
    /\ LET result == CheckAndDeduct(backend)
       IN /\ p_rpcs' = p_rpcs + (IF backend = "no_client" THEN 0 ELSE 1)
          /\ p_result' = <<result>>
          /\ p_alert' = ~result.allowed
          /\ p_ran' = (result.allowed /\ answered)
    /\ p_pc' = "done"
    /\ UNCHANGED <<objects, limitVars, dbVars, threadVars, now, today, tbVars, rlVars,
                   retryVars, cacheVars, clientVars, p_update, p_updates>>

WrapperCall ==
    \E kind \in UpdateKinds, data \in CallbackData : wrapper_call(kind, data)

WrapperDeduct ==
    \E backend \in DeductOutcomes, answered \in BOOLEAN :
        wrapper_deduct(backend, answered)

\* ------------------------------------------------------- specifications
InitTB ==
    /\ objects = {"TokenBucketRateLimiter"}
    /\ now = 0 /\ today = 0
    /\ TBInit /\ RLIdle /\ RetryIdle /\ CacheIdle /\ ClientIdle
    /\ DBIdle /\ ThreadsIdle /\ LimitIdle /\ PointsIdle

InitRL ==
    /\ objects = {"RateLimiter"}
    /\ now = 0 /\ today = 0
    /\ TBIdle /\ RLInit /\ RetryIdle /\ CacheIdle /\ ClientIdle
    /\ DBIdle /\ ThreadsIdle /\ LimitIdle /\ PointsIdle

NextRL == Tick \/ AllowRequest \/ WaitTimeQuery

SpecRL == InitRL /\ [][NextRL]_vars

\* both limiters: a run exercises the one its initial state constructs
InitLimiters == InitTB \/ InitRL

NextLimiters == Tick \/ NewDay \/ acquire \/ get_usage_stats \/ AllowRequest

SpecLimiters == InitLimiters /\ [][NextLimiters]_vars

NextTB == Tick \/ NewDay \/ acquire \/ get_usage_stats

SpecTB == InitTB /\ [][NextTB]_vars

\* two limiters built alike and asked for tokens at the same moments; only
\* the first is asked for its statistics
InitTwins ==
    /\ objects = {"TokenBucketRateLimiter", "shadow"}
    /\ now = 0 /\ today = 0
    /\ TBInit /\ RLIdle /\ RetryIdle /\ CacheIdle /\ ClientIdle
    /\ DBIdle /\ ThreadsIdle /\ LimitIdle /\ PointsIdle

NextTwins == Tick \/ NewDay \/ both_acquire \/ get_usage_stats

SpecTwins == InitTwins /\ [][NextTwins]_vars


InitRetry ==
    /\ objects = {"retry"}
    /\ now = 0 /\ today = 0
    /\ TBIdle /\ RLIdle /\ RetryInit /\ CacheIdle /\ ClientIdle
    /\ DBIdle /\ ThreadsIdle /\ LimitIdle /\ PointsIdle

NextRetry == wrapper_enter \/ WrapperAttempt

SpecRetry == InitRetry /\ [][NextRetry]_vars

InitCache ==
    /\ objects = {"cached"}
    /\ now = 0 /\ today = 0
    /\ TBIdle /\ RLIdle /\ RetryIdle /\ CacheInit /\ ClientIdle
    /\ DBIdle /\ ThreadsIdle /\ LimitIdle /\ PointsIdle

NextCache == Tick \/ CachedCall

SpecCache == InitCache /\ [][NextCache]_vars

\* the client and the rate limiter it builds in __init__
InitClient ==
    /\ objects = {"APIFootballClient", "TokenBucketRateLimiter"}
    /\ now = 0 /\ today = 0
    /\ TBInit /\ RLIdle /\ RetryIdle /\ CacheIdle /\ ClientInit
    /\ DBIdle /\ ThreadsIdle /\ LimitIdle /\ PointsIdle

NextClient == Tick \/ NewDay \/ AccessorCall \/ MakeRequestAttempt

SpecClient == InitClient /\ [][NextClient]_vars

\* a limiter whose only caller is the paced one
InitPaced == InitTB /\ Paced

NextPaced == pace \/ paced_acquire \/ NewDay \/ get_usage_stats

SpecPaced == InitPaced /\ [][NextPaced]_vars

\* a limiter called by several threads at once, no time passing meanwhile
InitThreads ==
    /\ objects = {"TokenBucketRateLimiter", "threads"}
    /\ now = 0 /\ today = 0
    /\ TBInit /\ RLIdle /\ RetryIdle /\ CacheIdle /\ ClientIdle
    /\ DBIdle /\ LimiterThreadsInit /\ LimitIdle /\ PointsIdle

NextThreads == ThCall \/ ThLock \/ ThRefill \/ ThCheck \/ ThLoad \/ ThStore \/ ThStats

SpecThreads == InitThreads /\ [][NextThreads]_vars

\* one cached function, or one RateLimiter, called by several threads
\* a cached lookup of StaticDataService, any of them, called and cleared; the
\* lookups are all decorated with ttl=86400 and a maxsize of 32 or more, here
\* the largest TTL and size of the model
InitClear ==
    /\ objects = {"cached", "StaticDataService"}
    /\ now = 0 /\ today = 0
    /\ TBIdle /\ RLIdle /\ RetryIdle /\ CacheInit /\ ClientIdle
    /\ DBIdle /\ ThreadsIdle /\ LimitIdle /\ PointsIdle
    /\ c_ttl = Ttl(MaxTtl) /\ c_maxsize = MaxSize

NextClear == Tick \/ CachedCall \/ cache_clear \/ ClearCache

SpecClear == InitClear /\ [][NextClear]_vars


\* one caller of a function decorated with rate_limit, with a key per user
InitRateLimit ==
    /\ objects = {"RateLimiter", "rate_limit"}
    /\ now = 0 /\ today = 0
    /\ TBIdle /\ RLInit /\ RetryIdle /\ CacheIdle /\ ClientIdle
    /\ DBIdle /\ ThreadsIdle /\ LimitIdle /\ PointsIdle

NextRateLimit == Tick \/ LimitedCall \/ LimitedCheck \/ limited_sleep

SpecRateLimit == InitRateLimit /\ [][NextRateLimit]_vars

\* updates arriving at a handler decorated with requires_points
InitPoints ==
    /\ objects = {"requires_points"}
    /\ now = 0 /\ today = 0
    /\ TBIdle /\ RLIdle /\ RetryIdle /\ CacheIdle /\ ClientIdle
    /\ DBIdle /\ ThreadsIdle /\ LimitIdle /\ PointsIdle

NextPoints == WrapperCall \/ WrapperDeduct

SpecPoints == InitPoints /\ [][NextPoints]_vars


InitCacheRaces ==
    /\ objects = {"cached", "threads"}
    /\ now = 0 /\ today = 0
    /\ TBIdle /\ RLIdle /\ RetryIdle /\ CacheInit /\ ClientIdle
    /\ DBIdle /\ RaceThreadsInit /\ LimitIdle /\ PointsIdle

InitLimiterRaces ==
    /\ objects = {"RateLimiter", "threads"}
    /\ now = 0 /\ today = 0
    /\ TBIdle /\ RLInit /\ RetryIdle /\ CacheIdle /\ ClientIdle
    /\ DBIdle /\ RaceThreadsInit /\ LimitIdle /\ PointsIdle

InitRaces == InitCacheRaces \/ InitLimiterRaces

NextRaces ==
    \/ Tick
    \/ CtCall \/ CtFull \/ CtOldest \/ CtDelCache \/ CtDelTimes \/ CtPutCache
    \/ CtPutTimes
    \/ RtCall \/ RtCheck \/ RtTake

SpecRaces == InitRaces /\ [][NextRaces]_vars

InitDB ==
    /\ objects = {"SupabaseClient"}
    /\ now = 0 /\ today = 0
    /\ TBIdle /\ RLIdle /\ RetryIdle /\ CacheIdle /\ ClientIdle
    /\ DBInit /\ ThreadsIdle /\ LimitIdle /\ PointsIdle

NextDB == DbCall \/ DbAttempt \/ StartCommand \/ start_continue

SpecDB == InitDB /\ [][NextDB]_vars

\* ================================================================ claims
HasTB == "TokenBucketRateLimiter" \in objects

NoTimeSinceRefill == now = minute_last_update /\ today = day_start

\* C1: acquire() is all-or-nothing across its two windows.  A call is granted
\* exactly when, after the refill, both windows hold at least one token; a
\* grant takes exactly one token from both windows and adds one to both
\* request counters; a refused call leaves tokens and counters as the refill
\* left them (with no time elapsed: exactly as they were before the call).
C1_AcquireStep ==
    LET r == tb_seen'
        granted == tb_result' = "granted"
    IN /\ granted <=> (r.minute >= OneToken /\ r.day >= 1)
       /\ r.minute >= minute_tokens /\ r.day >= day_tokens
       /\ r.minute_requests = minute_requests
       /\ granted =>
            /\ minute_tokens' = r.minute - OneToken
            /\ day_tokens' = r.day - 1
            /\ minute_requests' = minute_requests + 1
            /\ day_requests' = r.day_requests + 1
       /\ ~granted =>
            /\ minute_tokens' = r.minute
            /\ day_tokens' = r.day
            /\ minute_requests' = minute_requests
            /\ day_requests' = r.day_requests
       /\ NoTimeSinceRefill =>
            /\ r.minute = minute_tokens /\ r.day = day_tokens
            /\ r.day_requests = day_requests

\* C1: every acquire() step is all-or-nothing across the two windows, as
\* spelled out in C1_AcquireStep.
C1_AllOrNothing == [][acquire => C1_AcquireStep]_vars

\* a call refused by the per-minute window while the per-day window held
\* tokens, none of which was taken
C1_Witness ==
    /\ HasTB
    /\ tb_result = "minute"
    /\ tb_seen.day >= 1
    /\ day_tokens = tb_seen.day
    /\ minute_requests >= 1

\* C2 (TokenBucketRateLimiter half): both token counts stay within
\* [0, capacity]
TBTokensInRange ==
    HasTB =>
        /\ 0 <= minute_tokens /\ minute_tokens <= per_minute * OneToken
        /\ 0 <= day_tokens /\ day_tokens <= per_day

\* C2 (decorators.RateLimiter half): every bucket stays within [0, max_calls]
RLTokensInRange ==
    \A k \in DOMAIN buckets :
        /\ 0 <= buckets[k].tokens
        /\ buckets[k].tokens <= rl_max_calls * rl_period

\* C2: in every reachable state 0 <= minute_tokens <= per_minute and
\* 0 <= day_tokens <= per_day, and 0 <= tokens <= max_calls for every bucket
\* of decorators.RateLimiter.
C2_TokensInRange == TBTokensInRange /\ RLTokensInRange

\* C2 (TokenBucketRateLimiter half, steps): a token count rises only in a
\* refill (time has passed, or the date has changed) and falls only in a
\* granted acquire(), which takes exactly one token.
TBTokenSteps ==
    [][/\ minute_tokens' > minute_tokens => now > minute_last_update
       /\ day_tokens' > day_tokens => today > day_start
       /\ (minute_tokens' < minute_tokens \/ day_tokens' < day_tokens) =>
            /\ minute_requests' = minute_requests + 1
            /\ minute_tokens' = tb_seen'.minute - OneToken
            /\ day_tokens' = tb_seen'.day - 1]_vars

\* C3: with no time elapsing since construction, exactly min(M, D) calls are
\* granted: there are never more grants than that, a refusal happens only
\* once that many calls were granted, and with D > M the refusal comes from
\* the per-minute window.
C3_FreshBurst ==
    (HasTB /\ now = 0 /\ today = 0) =>
        LET m == Min(per_minute, per_day)
            refused == tb_result \in {"day", "minute"}
        IN /\ minute_requests <= m
           /\ refused => minute_requests = m
           /\ (refused /\ per_day > per_minute) => tb_result = "minute"
           /\ (tb_result = "granted") => minute_requests >= 1

C3_Witness ==
    /\ HasTB /\ now = 0 /\ today = 0
    /\ per_day > per_minute
    /\ per_minute > 1
    /\ minute_requests = per_minute
    /\ tb_result = "minute"

HasRetry == "retry" \in objects

Invocations == Len(r_outcomes)

AllBefore(n, kind) == \A i \in 1..(n - 1) : r_outcomes[i] = kind

OnlyRetryableFailures == \A i \in 1..Invocations : r_outcomes[i] # "other"

\* C4: with max_attempts >= 1 and only retryable failures, the function is
\* invoked until its first success or max_attempts invocations.  After N
\* failures and a success the wrapper returns that success after N + 1
\* invocations; after max_attempts failures it raises the failure of the
\* last invocation; it never returns normally then, and never invokes again.
C4_RetryOutcome ==
    (HasRetry /\ r_max_attempts >= 1 /\ OnlyRetryableFailures) =>
        /\ Invocations <= r_max_attempts
        /\ r_pc = "running" =>
             /\ Invocations < r_max_attempts
             /\ AllBefore(Invocations + 1, "retryable")
             /\ r_attempt = Invocations + 1
        /\ r_pc = "returned" =>
             /\ Invocations >= 1
             /\ r_outcomes[Invocations] = "ok"
             /\ AllBefore(Invocations, "retryable")
             /\ r_done = Invocations
        /\ r_pc = "raised" =>
             /\ Invocations = r_max_attempts
             /\ AllBefore(Invocations + 1, "retryable")
             /\ r_done = Invocations
        /\ r_pc \in {"returned", "raised"} => ~ENABLED WrapperAttempt

\* every attempt failed: max_attempts invocations, then the last failure
C4_Witness ==
    /\ HasRetry /\ r_max_attempts = MaxAttempts
    /\ r_pc = "raised"
    /\ AllBefore(Invocations + 1, "retryable")
    /\ Invocations = MaxAttempts

\* C5: a failure that is not of a retryable kind, on any attempt, ends the
\* call at once: it is the last invocation, it is the failure raised, and no
\* sleep follows it (the sleeps are those between the earlier attempts).
C5_NonRetryable ==
    HasRetry =>
        \A i \in 1..Invocations :
            r_outcomes[i] = "other" =>
                /\ i = Invocations
                /\ r_pc = "raised"
                /\ r_done = i
                /\ Len(r_sleeps) = i - 1
                /\ ~ENABLED WrapperAttempt

\* a non-retryable failure on the second of three attempts
C5_Witness ==
    /\ HasRetry /\ r_max_attempts = 3
    /\ Invocations = 2
    /\ r_outcomes[1] = "retryable" /\ r_outcomes[2] = "other"
    /\ r_pc = "raised"

HasCache == "cached" \in objects

HasTtl == c_ttl # NoTtl

\* the entry of key k is stored and younger than the TTL at time t
StoredYoung(k, t) ==
    /\ k \in DOMAIN cache
    /\ \E i \in 1..Len(cache_times) :
           cache_times[i].key = k /\ t - cache_times[i].time < c_ttl[1]

StoredTime(times, k) ==
    LET i == CHOOSE i \in 1..Len(times) : times[i].key = k IN times[i].time

\* a step in which the wrapper ran and left a trace
CachedStep == cacheVars' # cacheVars

\* C8 (per call): a call whose key is stored with age < T returns the stored
\* value without invoking the function; any other call invokes it exactly
\* once and, when it returns, stores the result under the current time and
\* returns it.
C8_CallStep ==
    (HasCache /\ HasTtl /\ CachedStep) =>
        LET k == c_last'.key IN
        IF StoredYoung(k, now)
        THEN /\ c_last'.hit
             /\ c_invocations' = c_invocations
             /\ c_last'.value = cache[k]
             /\ cache' = cache /\ cache_times' = cache_times
        ELSE /\ ~c_last'.hit
             /\ c_invocations' = c_invocations + 1
             /\ ~c_last'.raised =>
                  /\ c_last'.value = c_invocations'
                  /\ k \in DOMAIN cache' /\ cache'[k] = c_last'.value
                  /\ StoredTime(cache_times', k) = now'

C8_OncePerWindowUnlessEvicted ==
    (HasCache /\ HasTtl /\ c_last.key # "none" /\ ~c_last.hit /\ c_last.prev >= 0
        /\ ~c_last.lost) =>
        c_last.at - c_last.prev >= c_ttl[1]

\* C8: a value whose entry has expired is never returned.
C8_NoExpiredValue ==
    (HasCache /\ HasTtl /\ c_last.hit) =>
        /\ c_last.prev >= 0
        /\ c_last.at - c_last.prev < c_ttl[1]

MinTime(times) ==
    CHOOSE t \in {times[i].time : i \in 1..Len(times)} :
        \A i \in 1..Len(times) : t <= times[i].time

\* C9 (states): never more than maxsize entries, and the value map and the
\* timestamp map hold the same keys.
C9_Bounded ==
    HasCache =>
        /\ Cardinality(DOMAIN cache) <= c_maxsize
        /\ DOMAIN cache = TimedKeys
        /\ Len(cache_times) = Cardinality(TimedKeys)

\* C9 (steps): storing a new key into a full cache leaves exactly maxsize
\* entries; a step removes at most one entry, only from a full cache, and it
\* is one with the smallest insertion time; a hit changes no insertion time.
C9_EvictStep ==
    HasCache =>
        LET gone == DOMAIN cache \ DOMAIN cache'
            new == DOMAIN cache' \ DOMAIN cache
        IN /\ Cardinality(gone) <= 1
           /\ \A k \in gone :
                /\ Cardinality(DOMAIN cache) = c_maxsize
                /\ StoredTime(cache_times, k) = MinTime(cache_times)
                /\ c_last'.evicted = k
           /\ (new # {} /\ Cardinality(DOMAIN cache) = c_maxsize) =>
                /\ Cardinality(DOMAIN cache') = c_maxsize
                /\ Cardinality(gone) = 1
           /\ c_invocations' = c_invocations =>
                cache_times' = cache_times /\ cache' = cache

\* C9: cached(maxsize=K), K >= 1, holds at most K entries under the same keys
\* in both maps; the (K+1)-th distinct key evicts the entry with the smallest
\* insertion time and leaves K entries; a hit does not refresh an entry.
C9_OldestEvicted == []C9_Bounded /\ [][C9_EvictStep]_vars

\* a full cache of MaxSize entries after its oldest entry made room, the
\* evicted key having been served from the cache before
C9_Witness ==
    /\ HasCache /\ c_maxsize = MaxSize
    /\ Cardinality(DOMAIN cache) = MaxSize
    /\ c_last.evicted # "none"
    /\ c_last.evicted \notin DOMAIN cache
    /\ c_last.key # c_last.evicted

HasClient == "APIFootballClient" \in objects

Transient == {"Timeout", "5xx", "429"}

\* C6: a timeout, a 5xx and a 429 are retryable in the API client: such a
\* failure reaches the accessor's caller only after the retry wrapper has
\* used up its 3 attempts.
C6_TransientRetried ==
    (HasClient /\ a_pc = "raised" /\ a_http \in Transient) =>
        /\ a_attempt = ClientMaxAttempts
        /\ a_sleeps = ClientMaxAttempts - 1

\* C7 (states): session.get is never called more often than tokens were
\* granted, and a call refused by the rate limiter ends the accessor call at
\* once: no HTTP request in that attempt, no sleep, no further attempt.
C7_NoGetWithoutToken ==
    HasClient =>
        /\ a_total_gets <= minute_requests
        /\ (a_pc = "raised" /\ a_error = "RateLimitExceededError(local)") =>
             /\ tb_result \in {"day", "minute"}
             /\ a_http = "none"
             /\ a_sleeps = 0
             /\ a_gets = a_attempt - 1
        /\ (a_pc = "running" /\ a_attempt > 1) => tb_result = "granted"

\* C7 (steps): every session.get happens in an attempt in which acquire()
\* granted a token.
C7_GetStep ==
    a_total_gets' > a_total_gets =>
        /\ tb_result' = "granted"
        /\ minute_requests' = minute_requests + 1
        /\ a_total_gets' = a_total_gets + 1

\* C7: the rate limiter is consulted before the network call on every
\* attempt; a refusal makes no HTTP request, sleeps never and is not retried;
\* session.get calls never exceed granted tokens.
C7_LimiterFirst == []C7_NoGetWithoutToken /\ [][C7_GetStep]_vars

\* an accessor call refused by the limiter after earlier calls were served
C7_Witness ==
    /\ HasClient
    /\ a_pc = "raised" /\ a_error = "RateLimitExceededError(local)"
    /\ a_total_gets >= 1
    /\ a_total_gets = minute_requests

\* C10: two calls of the same accessor with the same parameters within the
\* TTL (here: with no time passing at all) take at most one token and make
\* at most one HTTP GET.
C10_SecondCallCached ==
    (HasClient /\ now = 0 /\ today = 0) =>
        \A k \in ReqKeys :
            (a_log[k].calls >= 2 /\ a_pc # "running") =>
                /\ a_log[k].tokens <= 1
                /\ a_log[k].gets <= 1

HasDB == "SupabaseClient" \in objects

\* C11: every SupabaseClient operation applies the retry discipline: a method
\* call whose backend call failed has ended only after 3 attempts, which sent
\* the backend call 3 times, with sleeps of 1 and 2 between them.
C11_FailureRetried ==
    (HasDB /\ d_pc \in {"returned", "raised"} /\ d_failed) =>
        /\ d_attempt = DbMaxAttempts
        /\ d_sent = DbMaxAttempts
        /\ d_sleeps = <<DbDelay, DbDelay * DbBackoff>>

\* C12: no failure is swallowed: a method call whose backend call failed
\* never returns normally, and /start never goes on to create an account for
\* a user who had a row when the command arrived.
C12_NoFailureSwallowed ==
    HasDB =>
        /\ (d_pc = "returned" => ~d_failed)
        /\ (h_pc = "create" => ~h_existed)

\* what a per-day bucket refilled by rate would hold, times TicksPerDay, after
\* `elapsed` ticks
RateRefilledDay(tokens, elapsed) ==
    Min(per_day * TicksPerDay, tokens * TicksPerDay + elapsed * per_day)

\* C13 (original wording): the per-day window is refilled by the rule of the
\* per-minute window, tokens = min(per_day, tokens + elapsed * per_day / 86400):
\* after a per-day refusal one more call is admissible once 86400 / per_day
\* seconds have elapsed, whatever the calendar date.
C13_DayRefilledByRate ==
    (HasTB /\ tb_prev.result = "day"
        /\ RateRefilledDay(0, tb_seen.at - tb_prev.at) >= TicksPerDay) =>
        tb_result # "day"

\* C13 (amended, states): the per-day bucket holds a whole number of tokens
\* between 0 and per_day, and per_day - day_requests of them.
C13_DayTokensWhole ==
    HasTB =>
        /\ day_tokens \in 0..per_day
        /\ day_tokens = per_day - day_requests

\* C13 (amended, steps): the per-day bucket rises only to per_day, and only in
\* the first refill after the calendar date has passed day_start; otherwise
\* it changes by the one token of a grant; an acquire() on an empty bucket is
\* refused by the per-day window as long as the date has not changed.
C13_DayStep ==
    /\ day_tokens' > day_tokens =>
         /\ today > day_start
         /\ day_start' = today
         /\ day_tokens' \in {per_day, per_day - 1}
    /\ (day_tokens' < day_tokens /\ today = day_start) =>
         /\ day_tokens' = day_tokens - 1
         /\ tb_result' = "granted"
    /\ (acquire /\ day_tokens = 0 /\ today = day_start) =>
         /\ tb_result' = "day"
         /\ day_tokens' = 0
    /\ (acquire /\ today > day_start) => tb_seen'.day = per_day

\* C13 (amended): the per-day window is a quota per calendar date: it is
\* reset to per_day when the date changes and never refilled by elapsed time.
C13_DayResetOnDateChange == []C13_DayTokensWhole /\ [][C13_DayStep]_vars

\* a second per-day refusal on the same date, after a wait in which a bucket
\* refilled by rate would have regained a token
C13_Witness ==
    /\ HasTB
    /\ tb_prev.result = "day" /\ tb_result = "day"
    /\ today = 0
    /\ RateRefilledDay(0, tb_seen.at - tb_prev.at) >= TicksPerDay
    /\ per_day >= 2

\* C15 (states): a per-minute refusal reports the wait
\* (1 - minute_tokens) * 60 / per_minute, which lies in (0, 60 / per_minute].
C15_WaitReported ==
    (HasTB /\ tb_result = "minute") =>
        /\ tb_wait = <<OneToken - tb_seen.minute>>
        /\ 0 < tb_wait[1] /\ tb_wait[1] <= TicksPerMinute

\* C15 (after the wait): when the acquire() before the latest one was refused
\* by the per-minute window and the latest one came at least the reported
\* wait later, the latest one is not refused by the per-minute window: it is
\* granted if the per-day window holds a token.
C15_GrantedAfterWait ==
    (HasTB /\ tb_prev.result = "minute"
        /\ (tb_seen.at - tb_prev.at) * per_minute >= tb_prev.wait[1]) =>
        /\ tb_result # "minute"
        /\ tb_seen.day >= 1 => tb_result = "granted"

C16_RefusalCarriesWait ==
    (HasTB /\ tb_result \in {"day", "minute"}) =>
        /\ tb_wait # NoWait
        /\ tb_wait[1] > 0

\* C14 (original wording): no call of a caller pacing its calls exactly
\* 60 / per_minute seconds apart is ever refused.
C14_NeverRefused ==
    (HasTB /\ Paced) => tb_result \notin {"day", "minute"}

\* C14 (amended): no call of such a caller is refused by the per-minute
\* window: each call finds the per-minute bucket full again; a call is
\* refused only by the per-day window, and only when the quota of the date is
\* used up.
C14_PacedRefusedOnlyByDay ==
    (HasTB /\ Paced) =>
        /\ tb_result # "minute"
        /\ tb_result # "none" => tb_seen.minute = per_minute * OneToken
        /\ tb_result = "day" =>
             /\ tb_seen.day = 0
             /\ tb_seen.day_requests = per_day

\* a paced call refused by the per-day window after per_day paced calls were
\* granted
C14_Witness ==
    /\ HasTB /\ Paced
    /\ tb_result = "day"
    /\ per_day >= 2
    /\ minute_requests = per_day
    /\ tb_seen.at = per_day * Spacing

RECURSIVE Pow(_, _)
Pow(b, n) == IF n = 0 THEN 1 ELSE b * Pow(b, n - 1)

RECURSIVE SumSeq(_)
SumSeq(seq) == IF seq = << >> THEN 0 ELSE Head(seq) + SumSeq(Tail(seq))

\* C19: retry / async_retry sleep exactly once between two consecutive
\* attempts and at no other time; the sleep before attempt k > 1 lasts
\* delay * backoff^(k-2); no sleep follows a success or the final failure.
\* With max_attempts=3, delay=1, backoff=2, failures on attempts 1 and 2 and a
\* success on attempt 3, the sleeps add up to 3 and the success is returned.
C19_SleepsBetweenAttempts ==
    HasRetry =>
        /\ \A k \in 2..(Len(r_sleeps) + 1) :
               r_sleeps[k - 1] = r_delay * Pow(r_backoff, k - 2)
        /\ r_pc = "running" =>
             /\ Len(r_sleeps) = Invocations
             /\ r_attempt = Invocations + 1
        /\ (r_pc \in {"returned", "raised"} /\ Invocations >= 1) =>
             Len(r_sleeps) = Invocations - 1
        /\ Invocations = 0 => r_sleeps = << >>
        /\ (r_max_attempts = 3 /\ r_delay = 1 /\ r_backoff = 2
              /\ r_outcomes = <<"retryable", "retryable", "ok">>) =>
             /\ r_pc = "returned" /\ r_done = 3
             /\ SumSeq(r_sleeps) = 3

\* the scenario: two failures, then a success, after sleeps of 1 and 2
C19_Witness ==
    /\ HasRetry
    /\ r_max_attempts = 3 /\ r_delay = 1 /\ r_backoff = 2
    /\ r_outcomes = <<"retryable", "retryable", "ok">>
    /\ r_sleeps = <<1, 2>>
    /\ r_pc = "returned"

\* C20: an HTTP 401 and an HTTP 200 with a non-empty errors field are not
\* retried: the accessor call ends at once with AuthenticationError,
\* respectively APIFootballError, after exactly one session.get, with no
\* backoff sleep and with the one token of that attempt.
C20_NotRetried ==
    (HasClient /\ a_http \in {"401", "200errors"}) =>
        /\ a_pc = "raised"
        /\ a_error = IF a_http = "401" THEN "AuthenticationError"
                                       ELSE "APIFootballError"
        /\ a_attempt = 1
        /\ a_gets = 1
        /\ a_sleeps = 0
        /\ tb_result = "granted"
        /\ ~ENABLED MakeRequestAttempt

\* a 401 answered to the second accessor call of a client
C20_Witness ==
    /\ HasClient
    /\ a_http = "401" /\ a_pc = "raised"
    /\ a_error = "AuthenticationError"
    /\ a_total_gets = 2

HasLimiterThreads == "threads" \in objects /\ HasTB

Grants == Tally(Threads, "granted")

Refusals == Tally(Threads, "refused")

InWithBlock(t) == t_pc[t] \in {"refill", "check", "load", "store", "stats"}

Quiescent == \A t \in Threads : t_pc[t] = "ready"

\* C17: with threads calling acquire() and get_usage_stats() concurrently,
\* at most one thread is inside the with block and it is the holder of the
\* lock, which is free whenever no thread is inside (it is released on the
\* grant path and on the refusal path); some thread can always take a step
\* while a call is under way; the grants are never more than the k tokens
\* the windows held, no grant is lost from the token counts or the counters,
\* no token count is negative, a call is refused only once k calls were
\* granted, and N calls end with exactly min(N, k) grants.
C17_AtomicUnderLock ==
    HasLimiterThreads =>
        LET k == Min(per_minute, per_day) IN
        /\ \A t, u \in Threads : (InWithBlock(t) /\ InWithBlock(u)) => t = u
        /\ \A t \in Threads : InWithBlock(t) <=> lock = t
        /\ lock \in Threads \cup {0}
        /\ ~Quiescent => ENABLED NextThreads
        /\ Grants <= k
        /\ minute_requests = Grants /\ day_requests = Grants
        /\ minute_tokens = (per_minute - Grants) * OneToken
        /\ day_tokens = per_day - Grants
        /\ minute_tokens >= 0 /\ day_tokens >= 0
        /\ Refusals > 0 => Grants = k
        /\ Quiescent => Grants = Min(Grants + Refusals, k)

\* both threads were granted a token, a later call was refused, and the lock
\* is free again
C17_Witness ==
    /\ HasLimiterThreads
    /\ Quiescent /\ lock = 0
    /\ \A t \in Threads : t_result[t].granted >= 1
    /\ Refusals >= 1
    /\ Grants = Min(per_minute, per_day)

HasRaceThreads == "threads" \in objects /\ ~HasTB

\* C18: overlapping callers of a cached function or of allow_request behave
\* as if their calls ran one at a time: no caller fails inside the cache's
\* own bookkeeping, the entry count never exceeds maxsize, the value map and
\* the timestamp map hold the same keys whenever no call is under way; and
\* the buckets never grant more calls than tokens have accrued (max_calls per
\* period and bucket), so that a bucket holding one token grants one call.
C18_AsIfOneAtATime ==
    HasRaceThreads =>
        /\ \A t \in Threads : t_result[t].failed = 0
        /\ HasCache =>
             /\ Cardinality(DOMAIN cache) <= c_maxsize
             /\ Quiescent => DOMAIN cache = TimedKeys
        /\ "RateLimiter" \in objects =>
             Grants * rl_period <= Cardinality(DOMAIN buckets) * rl_max_calls * now


\* C26 (states): a grant takes one token of the per-day bucket and counts one
\* request, and a reset refills the one and zeroes the other, so that
\* day_tokens + day_requests = per_day; no more than per_day requests are
\* counted for one calendar date.
C26_DaySum ==
    HasTB =>
        /\ day_tokens + day_requests = per_day
        /\ day_requests \in 0..per_day

\* C26 (steps): the first refill after the calendar date has advanced, by
\* acquire() or by get_usage_stats(), restores day_tokens to per_day and
\* day_requests to 0 before the admission check; a grant counts one request
\* on top of what the refill left.
C26_DayStep ==
    /\ (acquire /\ today > day_start) =>
         /\ tb_seen'.day = per_day /\ tb_seen'.day_requests = 0
         /\ tb_result' # "day"
         /\ day_requests' = (IF tb_result' = "granted" THEN 1 ELSE 0)
         /\ day_tokens' = per_day - day_requests'
    /\ (get_usage_stats /\ today > day_start) =>
         /\ day_tokens' = per_day /\ day_requests' = 0
    /\ (acquire /\ today = day_start) =>
         /\ tb_seen'.day_requests = day_requests
         /\ day_requests' = day_requests + (IF tb_result' = "granted" THEN 1 ELSE 0)

\* C26: day_tokens + day_requests = per_day in every reachable state; at most
\* per_day calls are granted per calendar date; the first refill after a date
\* change restores the full quota and a zero counter.
C26_DayAccounting == []C26_DaySum /\ [][C26_DayStep]_vars

\* the quota of the first date was used up and refused a call; on the next
\* date an acquire() found the bucket full and the counter at zero
C26_Witness ==
    /\ HasTB
    /\ today = 1 /\ day_start = 1
    /\ tb_prev.result = "day"
    /\ tb_result = "granted"
    /\ tb_seen.day = per_day /\ tb_seen.day_requests = 0
    /\ day_requests = 1


\* C27 (steps): a call in which the wrapped function raised invoked it once
\* and left the value map and the timestamp map exactly as they were.
C27_RaiseStep ==
    (HasCache /\ CachedStep /\ c_last'.raised) =>
        /\ c_invocations' = c_invocations + 1
        /\ ~c_last'.hit
        /\ cache' = cache /\ cache_times' = cache_times

\* C27 (states): after such a call the key has no valid entry, so the next
\* call for it invokes the function again.
C27_StillMissing ==
    (HasCache /\ c_last.raised) =>
        /\ ~Fresh(c_last.key, now)
        /\ c_last.evicted = "none"

\* C27: when the function wrapped by cached raises, nothing is stored,
\* nothing is evicted, and an expired entry of the key is neither removed nor
\* refreshed; the next call for the key invokes the function again.
C27_RaiseLeavesCache == []C27_StillMissing /\ [][C27_RaiseStep]_vars

\* the function raised while recomputing an expired entry of a full cache:
\* the entry is still stored, with its old timestamp
C27_Witness ==
    /\ HasCache /\ HasTtl
    /\ c_last.raised
    /\ c_last.key \in DOMAIN cache
    /\ c_last.prev >= 0 /\ TimeOf(c_last.key) = c_last.prev
    /\ Cardinality(DOMAIN cache) = c_maxsize


\* a call that invoked the function and stored its result
StoreStep == CachedStep /\ ~c_last'.hit /\ ~c_last'.raised

\* C23 (original wording): recomputing a key that is already stored replaces
\* its entry in place: no key leaves the cache, and a cache that held maxsize
\* entries still holds maxsize entries.
C23_RefreshEvictsNothing ==
    [][(HasCache /\ StoreStep /\ c_last'.key \in DOMAIN cache) =>
           DOMAIN cache' = DOMAIN cache]_vars

\* C23 (amended, steps): the wrapper evicts before it stores, whenever the
\* cache holds maxsize entries, whether or not the key is among them; the
\* entry evicted is one with the smallest timestamp. When the key is already
\* stored (its entry has expired) the entry evicted is the key's own or an
\* older one of another key, which has expired as well, and the cache is left
\* with maxsize entries in the first case and maxsize - 1 in the second.
C23_StoreStep ==
    (HasCache /\ StoreStep) =>
        LET k == c_last'.key
            e == c_last'.evicted
            full == Cardinality(DOMAIN cache) >= c_maxsize
        IN /\ (e # "none") <=> full
           /\ full =>
                /\ e \in DOMAIN cache
                /\ StoredTime(cache_times, e) = MinTime(cache_times)
                /\ DOMAIN cache' = (DOMAIN cache \ {e}) \cup {k}
           /\ ~full => DOMAIN cache' = DOMAIN cache \cup {k}
           /\ (full /\ k \in DOMAIN cache) =>
                /\ HasTtl
                /\ now - StoredTime(cache_times, e) >= c_ttl[1]
                /\ Cardinality(DOMAIN cache') =
                       IF e = k THEN c_maxsize ELSE c_maxsize - 1

\* C23 (amended): eviction is decided by len(cache) >= maxsize before the
\* store, also when the key is already stored; a refresh of a full cache
\* evicts an expired entry, of the key itself or of another key.
C23_EvictsWhenFull == [][C23_StoreStep]_vars

\* the expired entry of a stored key was recomputed in a full cache and the
\* entry of another key was evicted for it, leaving maxsize - 1 entries
C23_Witness ==
    /\ HasCache /\ HasTtl
    /\ c_last.key # "none" /\ ~c_last.hit /\ ~c_last.raised
    /\ c_last.prev >= 0 /\ ~c_last.lost
    /\ c_last.evicted \notin {"none", c_last.key}
    /\ c_last.evicted \notin DOMAIN cache
    /\ c_last.key \in DOMAIN cache
    /\ Cardinality(DOMAIN cache) = c_maxsize - 1


\* C22 (steps): cache_clear() and clear_cache() leave both maps empty, so
\* that no key has a valid entry; a call for a key whose entry a clear
\* removed invokes the function.
C22_ClearStep ==
    /\ (cache_clear \/ ClearCache) =>
         /\ cache' = << >> /\ cache_times' = << >>
         /\ Cardinality(DOMAIN cache') = 0
         /\ \A k \in CacheKeys : ~Fresh(k, now)'
    /\ \A k \in c_cleared :
         (CachedStep /\ c_last' # c_last /\ c_last'.key = k) =>
             /\ ~c_last'.hit
             /\ c_invocations' = c_invocations + 1

\* C22 (states): no entry stored before the latest clear is still stored, and
\* no call is served a value stored before it.
C22_NothingSurvives ==
    HasCache =>
        /\ c_cleared \cap DOMAIN cache = {}
        /\ c_cleared \cap TimedKeys = {}
        /\ c_last.hit => ~c_last.cleared

\* C22: cache_clear() removes every entry and every timestamp, the next call
\* for any key invokes the function again, and StaticDataService.clear_cache()
\* does so for each of the cached lookups.
C22_ClearRemovesAll == []C22_NothingSurvives /\ [][C22_ClearStep]_vars

\* a lookup whose entry was still fresh when clear_cache() ran was called
\* again within the TTL and invoked the function
C22_Witness ==
    /\ HasCache /\ HasTtl /\ "StaticDataService" \in objects
    /\ c_last.cleared /\ ~c_last.hit /\ ~c_last.raised
    /\ c_last.prev >= 0 /\ ~c_last.lost
    /\ c_last.at - c_last.prev < c_ttl[1]
    /\ c_last.key \in DOMAIN cache


HasRL == "RateLimiter" \in objects

\* C21: on a freshly constructed limiter the first max_calls consecutive
\* allow_request calls for a key are granted and the next one is refused,
\* also when the first call comes a period or more after the construction.
\* Stated for the first of these calls: the first allow_request for a key is
\* granted.
C21_FirstCallGranted ==
    (HasRL /\ rl_result.first) => rl_result.allowed

\* C28 (steps): allow_request and wait_time on one key leave the bucket of
\* every other key as it was, token count and last-update time, and create
\* no bucket but that of their own key.
C28_OtherKeysStep ==
    \A key \in RLKeys :
        ((\E gap \in 0..MaxGap : allow_request(key, gap)) \/ wait_time(key)) =>
            /\ DOMAIN buckets' = DOMAIN buckets \cup {key}
            /\ \A k \in DOMAIN buckets \ {key} : buckets'[k] = buckets[k]

\* what allow_request would answer for key k now
WouldAllow(k) ==
    Allowed(AddTokens(buckets[k].tokens, now - buckets[k].last_update,
                      rl_max_calls, rl_period), rl_period)

\* C28: the buckets of decorators.RateLimiter are independent per key: a call
\* for one key never changes the bucket of another, so a key whose bucket is
\* exhausted costs no other key a refusal or a delay.
C28_BucketsIndependent == [][C28_OtherKeysStep]_vars

\* one key was granted a call at a moment when the bucket of another key was
\* exhausted
C28_Witness ==
    /\ HasRL
    /\ rl_result.allowed
    /\ \E k \in DOMAIN buckets :
           /\ k # rl_result.key
           /\ buckets[k].last_update > 0
           /\ ~WouldAllow(k)

HasRateLimit == "rate_limit" \in objects

C24_InvokedAfterGrant ==
    (HasRateLimit /\ w_pc = "invoked") =>
        rl_result.key = w_key /\ rl_result.allowed

C24_OneSleep == HasRateLimit => w_sleeps <= 1

C24_SleepBounded ==
    (HasRateLimit /\ w_sleeps >= 1) =>
        /\ rl_wait.key = w_key
        /\ 0 < rl_wait.wait /\ rl_wait.wait <= rl_period

\* C24: a call through rate_limit invokes the function only after
\* allow_request granted its key; the wrapper sleeps only while the bucket
\* holds less than one token, for the wait_time of the bucket, which is more
\* than 0 and no more than period / max_calls; after at most one sleep the
\* call is admitted.
C24_AdmittedAfterOneSleep ==
    /\ C24_InvokedAfterGrant
    /\ C24_OneSleep
    /\ C24_SleepBounded


HasPoints == "requires_points" \in objects

\* callback data classified as free: an entry of FREE_NO_API, or data that
\* start with an entry of FREE_CACHED
FreeData(data) ==
    \/ data \in FREE_NO_API
    \/ \E prefix \in FREE_CACHED : StartsWith(data, prefix)

\* C25 (states): for a callback query whose data are not free the handler
\* has run only after exactly one deduct_point call, which reported
\* allowed = true; for free callback data the handler has run and
\* deduct_point was not called.
C25_RanOnlyIfPaid ==
    (HasPoints /\ p_update.kind = "CallbackQuery") =>
        IF FreeData(p_update.data)
        THEN p_pc = "done" /\ p_ran /\ p_rpcs = 0 /\ p_result = << >>
        ELSE /\ p_ran => (p_rpcs = 1 /\ p_result # << >> /\ p_result[1].allowed)
             /\ p_rpcs <= 1

\* C25 (steps): a backend exception, an empty result and a result without
\* success = true all yield allowed = false, and the handler is not run.
C25_DeniedStep ==
    \A backend \in {"no_client", "exception", "empty", "refused"} :
        (\E answered \in BOOLEAN : wrapper_deduct(backend, answered)) =>
            /\ ~p_result'[1].allowed
            /\ ~p_ran'
            /\ p_alert'

\* C25: a handler wrapped by requires_points runs, for callback data that
\* need points (the default for data matching no list), only after exactly
\* one deduct_point call reported allowed = true, and not after a backend
\* exception, an empty result or a result without success = true; for free
\* callback data it runs without any deduct_point call.
C25_HandlerNeedsPoint == []C25_RanOnlyIfPaid /\ [][C25_DeniedStep]_vars

\* callback data matching no list were charged one point and the handler
\* ran, after an update whose data were free
C25_Witness ==
    /\ HasPoints
    /\ p_update.kind = "CallbackQuery"
    /\ ~FreeData(p_update.data)
    /\ \A prefix \in REQUIRES_POINTS : ~StartsWith(p_update.data, prefix)
    /\ p_ran /\ p_rpcs = 1 /\ p_result[1].allowed
    /\ p_updates >= 2


InRange(window) ==
    /\ 0 <= window.available /\ window.available <= window.limit
    /\ 0 <= window.used /\ window.used <= window.limit
    /\ window.used + window.available <= window.limit

\* C29: get_usage_stats() reports, for the per-minute and for the per-day
\* window, 0 <= available <= limit, 0 <= used <= limit and
\* used + available <= limit, 'used' being the calls granted in the window's
\* current period.
C29_StatsInRange ==
    [][get_usage_stats =>
           /\ InRange(Stats(Refilled).per_minute)
           /\ InRange(Stats(Refilled).per_day)]_vars

HasTwins == HasTB /\ "shadow" \in objects

\* C30 (states): the limiter that is also asked for its statistics and the
\* one that is not gave the same answer to the latest acquire(), count the
\* same requests, and hold the same tokens once refilled to the present.
C30_SameAsShadow ==
    HasTwins =>
        /\ tb_result = shadow.result
        /\ minute_requests = shadow.minute_requests
        /\ Refilled.day_requests = ShadowRefilled.day_requests
        /\ Refilled.minute = ShadowRefilled.minute
        /\ Refilled.day = ShadowRefilled.day

\* C30 (steps): get_usage_stats() takes no token and counts no request; an
\* acquire() gets the same answer from both limiters and leaves them with the
\* same counters and tokens.
C30_Step ==
    HasTwins =>
        /\ get_usage_stats =>
             /\ minute_tokens' >= minute_tokens /\ day_tokens' >= day_tokens
             /\ minute_requests' = minute_requests
             /\ day_requests' \in {day_requests, 0}
             /\ tb_result' = tb_result
        /\ both_acquire =>
             /\ tb_result' = shadow'.result
             /\ minute_requests' = shadow'.minute_requests
             /\ day_requests' = shadow'.day_requests
             /\ minute_tokens' = shadow'.minute_tokens
             /\ day_tokens' = shadow'.day_tokens

\* C30: get_usage_stats() never consumes a token and never changes the
\* outcome of a later acquire(): a sequence of acquire() calls gets the same
\* answers and leaves the same request counters with get_usage_stats() calls
\* inserted at any times as without them.
C30_StatsUnobservable == []C30_SameAsShadow /\ [][C30_Step]_vars

\* after an acquire() refused by the per-minute window the statistics were
\* read while the token was partly refilled: the limiter asked holds more of
\* it than the other, and a later stamp
C30_Witness ==
    /\ HasTwins
    /\ tb_result = "minute" /\ shadow.result = "minute"
    /\ minute_last_update > shadow.minute_last_update
    /\ minute_tokens > shadow.minute_tokens
    /\ minute_tokens < OneToken
    /\ now > minute_last_update

====
